---- MODULE Spec2Model ----
(***************************************************************************)
(* A model of the VCP stock screener's trading core: the Portfolio Ledger  *)
(* (src/src/portfolio_manager.py), the Strategy Engine's exit and entry    *)
(* rules (src/src/trading_strategy.py), the Backtest Engine's day loop     *)
(* (src/src/backtester.py) and the live cycle driver (src/paper_trader.py).*)
(*                                                                         *)
(* Numbers.  The code computes in binary floating point; the model         *)
(* computes exactly, in integers:                                          *)
(*   - money and prices are in mills (1/1000 of a dollar), and every       *)
(*     signal or market price is a whole number of dollars, so that the    *)
(*     slippage-adjusted prices (x 1.001, x 0.999) are whole mills;        *)
(*   - fractions of the configuration are per mille (0.10 is 100);         *)
(*   - confidences are per cent (0.85 is 85);                              *)
(*   - a quotient the code stores (unrealized_pnl, pnl_percent) is kept    *)
(*     as a reduced fraction <<numerator, denominator>>;                   *)
(*   - a datetime is a whole number of days; d.days of a difference is     *)
(*     the difference of the day numbers.                                  *)
(* Python's None is the record None.                                       *)
(***************************************************************************)
EXTENDS Integers, Sequences, FiniteSets, TLC

VARIABLES
    portfolio,      \* the PortfolioManager instance (the ledger)
    now,            \* the wall clock, datetime.now(), in days
    last,           \* the last operation performed and what it returned
    h_open,         \* history: the open whose close is being followed
    data,           \* the historical market data a backtest replays
    bt,             \* a run of run_backtest at wall-clock time now
    bt2,            \* a second run over the same data, at time now2
    now2,           \* the wall clock of the second run, in days
    live,           \* the PaperTrader: watchlist and position in its cycle
    args,           \* the arguments of a call of a function on its own
    result          \* what that call returned, None before the call

vars == <<portfolio, now, last, h_open, data, bt, bt2, now2, live, args, result>>

ledger_vars == <<portfolio, last, h_open>>

backtest_vars == <<data, bt, bt2, now2>>

call_vars == <<args, result>>

driver_vars == <<backtest_vars, live, call_vars>>

None == [none |-> TRUE]

----------------------------------------------------------------------------
(* Bounds of the model and inputs of the operations.                       *)

Symbols == {"AAA", "BBB", "CCC"}

\* PortfolioManager(initial_capital=...): the starting capital, in mills.
InitialCapitals == {200000}

\* The price of a symbol's entry signals, in mills.
SignalPrice(symbol) ==
    CASE symbol = "AAA" -> 10000
      [] symbol = "BBB" -> 100000
      [] OTHER -> 10000

\* The prices a symbol is quoted at in exit signals and price maps, in mills.
MarketPrices(symbol) ==
    CASE symbol = "AAA" -> {690000, 700000}
      [] symbol = "BBB" -> {100000}
      [] OTHER -> {9000}

\* Share counts passed to can_open_position / open_position for a symbol:
\* the callers open only when shares > 0 (backtester.py:205,
\* paper_trader.py:231).
ShareChoices(symbol) ==
    CASE symbol = "AAA" -> {2}
      [] symbol = "BBB" -> {1, 2}
      [] OTHER -> {1}

\* The confidence of entry signals, per cent.
Confidence == 85

\* The clock runs from 0 to MaxNow.
MaxNow == 1

\* No more than MaxTrades positions are closed in a run of the model.
MaxTrades == 1

\* config['max_positions'] of the ledger: 15 by default
\* (portfolio_manager.py:47), set by the caller (run_backtest.py:305-308);
\* here one less than the number of symbols, so that the limit binds.
max_positions == Cardinality(Symbols) - 1

----------------------------------------------------------------------------
(* PortfolioManager.__init__: default_config.                              *)

max_single_position == 100     \* 0.10, per mille
cash_reserve == 50             \* 0.05, per mille
commission == 1000             \* 1.0 dollar, in mills
slippage == 1                  \* 0.001, per mille

(* VCPTradingStrategy.__init__: default_config.                            *)

stop_loss_percent == 80            \* 0.08, per mille
profit_target_percent == 250       \* 0.25, per mille
max_holding_days == 56
trailing_stop_trigger == 100       \* 0.10, per mille
trailing_stop_percent == 50        \* 0.05, per mille

\* self.config['max_holding_days'] of the strategy: the default, or what
\* the strategy_config of the call sets.
config_max_holding_days ==
    IF "max_holding_days" \in DOMAIN args THEN args.max_holding_days
    ELSE max_holding_days

----------------------------------------------------------------------------
(* Arithmetic helpers.                                                     *)

Abs(n) == IF n < 0 THEN -n ELSE n

RECURSIVE GCD(_, _)
GCD(a, b) == IF b = 0 THEN a ELSE GCD(b, a % b)

\* The quotient n / d (d > 0) as a reduced fraction.
Ratio(n, d) ==
    LET g == GCD(Abs(n), d)
    IN  <<n \div g, d \div g>>

Zero == <<0, 1>>

RECURSIVE SumSeq(_)
SumSeq(s) == IF s = <<>> THEN 0 ELSE Head(s) + SumSeq(Tail(s))

RECURSIVE SelectSeqBy(_, _)
\* s without the elements whose symbol is sym (del self.positions[symbol]).
SelectSeqBy(s, sym) ==
    IF s = <<>> THEN <<>>
    ELSE IF Head(s).symbol = sym THEN SelectSeqBy(Tail(s), sym)
         ELSE <<Head(s)>> \o SelectSeqBy(Tail(s), sym)

----------------------------------------------------------------------------
(* trading_strategy.py: the dataclasses.                                   *)

TradeSignal(symbol, signal_type, price, timestamp, confidence, reason, volume_ratio, stop_loss, profit_target) ==
    [symbol |-> symbol, signal_type |-> signal_type, price |-> price,
     timestamp |-> timestamp, confidence |-> confidence, reason |-> reason,
     volume_ratio |-> volume_ratio, stop_loss |-> stop_loss,
     profit_target |-> profit_target]

\* Position(...) with the dataclass defaults days_held = 0 and
\* unrealized_pnl = 0.0 (status is 'OPEN' throughout and is left out).
Position(symbol, entry_date, entry_price, shares, stop_loss, profit_target, confidence, current_price) ==
    [symbol |-> symbol, entry_date |-> entry_date, entry_price |-> entry_price,
     shares |-> shares, stop_loss |-> stop_loss,
     profit_target |-> profit_target, confidence |-> confidence,
     current_price |-> current_price, days_held |-> 0,
     unrealized_pnl |-> Zero]

----------------------------------------------------------------------------
(* portfolio_manager.py: the ledger.  positions is the dict                *)
(* symbol -> Position in insertion order, as a sequence of Positions.      *)

PortfolioManager(initial_capital) ==
    [initial_capital |-> initial_capital,
     cash |-> initial_capital,
     positions |-> <<>>,
     closed_trades |-> <<>>,
     daily_returns |-> <<>>,
     portfolio_history |-> <<>>]

\* symbol in self.positions
HasPosition(pf, symbol) ==
    \E i \in 1..Len(pf.positions) : pf.positions[i].symbol = symbol

\* self.positions[symbol]
PositionOf(pf, symbol) ==
    pf.positions[CHOOSE i \in 1..Len(pf.positions) :
                    pf.positions[i].symbol = symbol]

OpenSymbols(pf) == {pf.positions[i].symbol : i \in 1..Len(pf.positions)}

\* get_portfolio_value() without price_data.
get_portfolio_value(pf) ==
    pf.cash + SumSeq([i \in 1..Len(pf.positions) |->
                        pf.positions[i].shares * pf.positions[i].current_price])

\* The conditions can_open_position tests.  The ratio tests are
\* cross-multiplied: position_value / portfolio_value > max_single_position
\* and remaining_cash < portfolio_value * cash_reserve.
RequiredCash(signal, shares) == shares * signal.price + commission

LimitReached(pf) == Len(pf.positions) >= max_positions

CashShort(pf, signal, shares) == RequiredCash(signal, shares) > pf.cash

TooLarge(pf, signal, shares) ==
    (shares * signal.price) * (1000 \div max_single_position)
        > get_portfolio_value(pf)

ReserveShort(pf, signal, shares) ==
    (pf.cash - RequiredCash(signal, shares)) * (1000 \div cash_reserve)
        < get_portfolio_value(pf)

Rejected(reason) == [ok |-> FALSE, reason |-> reason]

Approved == [ok |-> TRUE, reason |-> "Position approved"]

\* The mutants of can_open_position: without the limit on the number of
\* positions; with the cash test after the size test.
can_open_position_no_limit(pf, signal, shares) ==
    IF HasPosition(pf, signal.symbol) THEN Rejected("Already have position")
    ELSE IF CashShort(pf, signal, shares) THEN Rejected("Insufficient cash")
    ELSE IF TooLarge(pf, signal, shares) THEN Rejected("Position too large")
    ELSE IF ReserveShort(pf, signal, shares)
      THEN Rejected("Would violate cash reserve requirement")
    ELSE Approved

can_open_position_size_first(pf, signal, shares) ==
    IF LimitReached(pf) THEN Rejected("Maximum positions limit")
    ELSE IF HasPosition(pf, signal.symbol) THEN Rejected("Already have position")
    ELSE IF TooLarge(pf, signal, shares) THEN Rejected("Position too large")
    ELSE IF CashShort(pf, signal, shares) THEN Rejected("Insufficient cash")
    ELSE IF ReserveShort(pf, signal, shares)
      THEN Rejected("Would violate cash reserve requirement")
    ELSE Approved

\* can_open_position: the checks in the order of the code.
can_open_position(pf, signal, shares) ==
    IF LimitReached(pf) THEN Rejected("Maximum positions limit")
    ELSE IF HasPosition(pf, signal.symbol) THEN Rejected("Already have position")
    ELSE IF CashShort(pf, signal, shares) THEN Rejected("Insufficient cash")
    ELSE IF TooLarge(pf, signal, shares) THEN Rejected("Position too large")
    ELSE IF ReserveShort(pf, signal, shares)
      THEN Rejected("Would violate cash reserve requirement")
    ELSE Approved

\* What open_position does once can_open_position has approved.
Opened(pf, signal, shares) ==
    LET entry_price == (signal.price * (1000 + slippage)) \div 1000
        total_cost == shares * entry_price + commission
        position == Position(signal.symbol, signal.timestamp, entry_price,
                             shares, signal.stop_loss, signal.profit_target,
                             signal.confidence, entry_price)
    IN  [pf |-> [pf EXCEPT !.cash = @ - total_cost,
                           !.positions = Append(@, position)],
         ret |-> position]

\* The mutant of open_position that does not consult can_open_position.
open_position_unchecked(pf, signal, shares) == Opened(pf, signal, shares)

\* The mutant of open_position that, for a symbol traded before, takes the
\* entry date of the new position from the last closed trade.
open_position_reuses_trade(pf, signal, shares) ==
    IF ~can_open_position(pf, signal, shares).ok
      THEN [pf |-> pf, ret |-> None]
      ELSE Opened(pf,
                  IF pf.closed_trades = <<>> THEN signal
                  ELSE [signal EXCEPT !.timestamp =
                          pf.closed_trades[Len(pf.closed_trades)].entry_date],
                  shares)

\* open_position: the ledger after the call and the value returned.
open_position(pf, signal, shares) ==
    IF ~can_open_position(pf, signal, shares).ok
      THEN [pf |-> pf, ret |-> None]
      ELSE Opened(pf, signal, shares)

\* The ClosedTrade close_position builds, and the proceeds it credits.
Proceeds(position, exit_signal) ==
    position.shares * ((exit_signal.price * (1000 - slippage)) \div 1000)
        - commission

ClosedTrade(position, exit_signal) ==
    LET exit_price == (exit_signal.price * (1000 - slippage)) \div 1000
        pnl_dollars == Proceeds(position, exit_signal)
                       - (position.shares * position.entry_price + commission)
    IN  [symbol |-> position.symbol,
         entry_date |-> position.entry_date,
         exit_date |-> exit_signal.timestamp,
         entry_price |-> position.entry_price,
         exit_price |-> exit_price,
         shares |-> position.shares,
         holding_days |-> exit_signal.timestamp - position.entry_date,
         pnl_dollars |-> pnl_dollars,
         pnl_percent |-> Ratio(pnl_dollars,
                               position.shares * position.entry_price),
         exit_reason |-> exit_signal.reason,
         confidence |-> position.confidence]

\* The mutant of close_position that leaves the position in the dict.
close_position_no_del(pf, symbol, exit_signal) ==
    IF ~HasPosition(pf, symbol)
      THEN [pf |-> pf, ret |-> None]
      ELSE LET position == PositionOf(pf, symbol)
           IN  [pf |-> [pf EXCEPT
                    !.cash = @ + Proceeds(position, exit_signal),
                    !.closed_trades =
                        Append(@, ClosedTrade(position, exit_signal))],
                ret |-> ClosedTrade(position, exit_signal)]

\* The mutant of close_position that credits the proceeds before the
\* commission.
close_position_gross(pf, symbol, exit_signal) ==
    IF ~HasPosition(pf, symbol)
      THEN [pf |-> pf, ret |-> None]
      ELSE LET position == PositionOf(pf, symbol)
           IN  [pf |-> [pf EXCEPT
                    !.cash = @ + Proceeds(position, exit_signal) + commission,
                    !.closed_trades =
                        Append(@, ClosedTrade(position, exit_signal)),
                    !.positions = SelectSeqBy(@, symbol)],
                ret |-> ClosedTrade(position, exit_signal)]

\* close_position: the ledger after the call and the value returned.
close_position(pf, symbol, exit_signal) ==
    IF ~HasPosition(pf, symbol)
      THEN [pf |-> pf, ret |-> None]
      ELSE LET position == PositionOf(pf, symbol)
           IN  [pf |-> [pf EXCEPT
                    !.cash = @ + Proceeds(position, exit_signal),
                    !.closed_trades =
                        Append(@, ClosedTrade(position, exit_signal)),
                    !.positions = SelectSeqBy(@, symbol)],
                ret |-> ClosedTrade(position, exit_signal)]

\* The three assignments update_positions and should_exit_position make to
\* a position given its current price, at wall-clock time t.
Marked(position, price, t) ==
    [position EXCEPT !.current_price = price,
                     !.days_held = t - position.entry_date,
                     !.unrealized_pnl = Ratio(price - position.entry_price,
                                              position.entry_price)]

\* The mutant of update_positions that marks every position, at the price
\* of the map when it has one and at its entry price otherwise.
update_positions_marks_all(pf, price_data, t) ==
    [pf EXCEPT !.positions =
        [i \in 1..Len(pf.positions) |->
            IF pf.positions[i].symbol \in DOMAIN price_data
              THEN Marked(pf.positions[i], price_data[pf.positions[i].symbol], t)
              ELSE Marked(pf.positions[i], pf.positions[i].entry_price, t)]]

\* update_positions(price_data) at wall-clock time t; price_data is a
\* function from some of the symbols to prices.
update_positions(pf, price_data, t) ==
    [pf EXCEPT !.positions =
        [i \in 1..Len(pf.positions) |->
            IF pf.positions[i].symbol \in DOMAIN price_data
              THEN Marked(pf.positions[i], price_data[pf.positions[i].symbol], t)
              ELSE pf.positions[i]]]

----------------------------------------------------------------------------
(* trading_strategy.py: the Strategy Engine.                               *)

\* The entry levels and the BUY signal analyze_vcp_signal builds
\* (trading_strategy.py:141-156).
EntrySignal(symbol, entry_price, timestamp, confidence, volume_ratio) ==
    TradeSignal(symbol, "BUY", entry_price, timestamp, confidence,
                "VCP breakout", volume_ratio,
                (entry_price * (1000 - stop_loss_percent)) \div 1000,
                (entry_price * (1000 + profit_target_percent)) \div 1000)

\* The SELL signal should_exit_position builds, at wall-clock time t.
ExitSignal(symbol, current_price, t, confidence, reason) ==
    TradeSignal(symbol, "SELL", current_price, t, confidence, reason, 0, 0, 0)

\* The mutant of should_exit_position that tests the profit target before
\* the stop loss.
should_exit_position_target_first(position, current_price, t) ==
    LET p == Marked(position, current_price, t)
        ret ==
            IF current_price >= p.profit_target
              THEN ExitSignal(p.symbol, current_price, t, 100,
                              "Profit target reached")
            ELSE IF current_price <= p.stop_loss
              THEN ExitSignal(p.symbol, current_price, t, 100,
                              "Stop loss triggered")
            ELSE IF p.days_held >= config_max_holding_days
              THEN ExitSignal(p.symbol, current_price, t, 80,
                              "Time stop (max holding period)")
            ELSE None
    IN  [position |-> p, ret |-> ret]

\* The mutant of should_exit_position whose trailing stop follows the
\* gain the position had at its previous check.
should_exit_position_trails_previous(position, current_price, t) ==
    LET p == Marked(position, current_price, t)
        n == p.unrealized_pnl[1]
        d == p.unrealized_pnl[2]
        previous_x1000 ==
            position.current_price * 1000
                - position.entry_price * trailing_stop_percent
        ret ==
            IF current_price <= p.stop_loss
              THEN ExitSignal(p.symbol, current_price, t, 100,
                              "Stop loss triggered")
            ELSE IF current_price >= p.profit_target
              THEN ExitSignal(p.symbol, current_price, t, 100,
                              "Profit target reached")
            ELSE IF p.days_held >= config_max_holding_days
              THEN ExitSignal(p.symbol, current_price, t, 80,
                              "Time stop (max holding period)")
            ELSE IF /\ n * 1000 >= trailing_stop_trigger * d
                    /\ current_price * 1000 <= previous_x1000
              THEN ExitSignal(p.symbol, current_price, t, 90, "Trailing stop")
            ELSE None
    IN  [position |-> p, ret |-> ret]

\* should_exit_position at wall-clock time t: the position as the call
\* leaves it (it is updated in place) and the value returned.  With
\* gain = n/d in lowest terms and entry_price = g * d, the trailing stop
\* entry_price * (1 + gain - trailing_stop_percent) times 1000 is
\* g * (1000 d + 1000 n - trailing_stop_percent d).
should_exit_position(position, current_price, t) ==
    LET p == Marked(position, current_price, t)
        n == p.unrealized_pnl[1]
        d == p.unrealized_pnl[2]
        g == p.entry_price \div d
        trailing_stop_x1000 ==
            g * (1000 * d + 1000 * n - trailing_stop_percent * d)
        ret ==
            IF current_price <= p.stop_loss
              THEN ExitSignal(p.symbol, current_price, t, 100,
                              "Stop loss triggered")
            ELSE IF current_price >= p.profit_target
              THEN ExitSignal(p.symbol, current_price, t, 100,
                              "Profit target reached")
            ELSE IF p.days_held >= config_max_holding_days
              THEN ExitSignal(p.symbol, current_price, t, 80,
                              "Time stop (max holding period)")
            ELSE IF /\ n * 1000 >= trailing_stop_trigger * d
                    /\ current_price * 1000 <= trailing_stop_x1000
              THEN ExitSignal(p.symbol, current_price, t, 90, "Trailing stop")
            ELSE None
    IN  [position |-> p, ret |-> ret]

----------------------------------------------------------------------------
(* portfolio_manager.py: persistence.  The JSON file is the record state;  *)
(* a date is written as text (isoformat) and read back (fromisoformat):    *)
(* the text is the sequence of the decimal digits of the day number.      *)

isoformat(d) == <<d \div 100, (d \div 10) % 10, d % 10>>

fromisoformat(text) == text[1] * 100 + text[2] * 10 + text[3]

\* The dict save_portfolio_state dumps, written at wall-clock time t.
save_portfolio_state(pf, t) ==
    [cash |-> pf.cash,
     initial_capital |-> pf.initial_capital,
     positions |->
        [i \in 1..Len(pf.positions) |->
            LET pos == pf.positions[i]
            IN  [symbol |-> pos.symbol,
                 entry_date |-> isoformat(pos.entry_date),
                 entry_price |-> pos.entry_price,
                 shares |-> pos.shares,
                 stop_loss |-> pos.stop_loss,
                 profit_target |-> pos.profit_target,
                 confidence |-> pos.confidence,
                 current_price |-> pos.current_price]],
     closed_trades |->
        [i \in 1..Len(pf.closed_trades) |->
            LET trade == pf.closed_trades[i]
            IN  [trade EXCEPT !.entry_date = isoformat(trade.entry_date),
                              !.exit_date = isoformat(trade.exit_date)]],
     timestamp |-> isoformat(t)]

RECURSIVE RestorePositions(_, _)
\* The loop self.positions[position.symbol] = position over pos_data:
\* a symbol already restored keeps its place and takes the later Position.
RestorePositions(restored, pos_data) ==
    IF pos_data = <<>> THEN restored
    ELSE
      LET d == Head(pos_data)
          position == Position(d.symbol, fromisoformat(d.entry_date),
                               d.entry_price, d.shares, d.stop_loss,
                               d.profit_target, d.confidence, d.current_price)
          next ==
              IF \E i \in 1..Len(restored) : restored[i].symbol = d.symbol
                THEN [i \in 1..Len(restored) |->
                        IF restored[i].symbol = d.symbol THEN position
                        ELSE restored[i]]
                ELSE Append(restored, position)
      IN  RestorePositions(next, Tail(pos_data))

\* The closed trades load_portfolio_state rebuilds from the file.
RestoreTrades(trade_data) ==
    [i \in 1..Len(trade_data) |->
        LET d == trade_data[i]
        IN  [symbol |-> d.symbol,
             entry_date |-> fromisoformat(d.entry_date),
             exit_date |-> fromisoformat(d.exit_date),
             entry_price |-> d.entry_price,
             exit_price |-> d.exit_price,
             shares |-> d.shares,
             holding_days |-> d.holding_days,
             pnl_dollars |-> d.pnl_dollars,
             pnl_percent |-> d.pnl_percent,
             exit_reason |-> d.exit_reason,
             confidence |-> d.confidence]]

\* The mutant of load_portfolio_state that keeps the initial capital the
\* new instance was built with.
load_portfolio_state_keeps_capital(pf, state) ==
    [pf EXCEPT
        !.cash = state.cash,
        !.positions = RestorePositions(<<>>, state.positions),
        !.closed_trades = RestoreTrades(state.closed_trades)]

\* load_portfolio_state of a well-formed file into the ledger pf.
load_portfolio_state(pf, state) ==
    [pf EXCEPT
        !.cash = state.cash,
        !.initial_capital = state.initial_capital,
        !.positions = RestorePositions(<<>>, state.positions),
        !.closed_trades = RestoreTrades(state.closed_trades)]

----------------------------------------------------------------------------
(* The ledger driven through its interface: any sequence of open, close,   *)
(* mark-to-market, exit check and save/load, as the clock advances.        *)

\* The record of an operation: its name, whether it succeeded and, for an
\* open, the reason can_open_position gave.
Op(op, ok, reason) == [op |-> op, ok |-> ok, reason |-> reason]

NoOpen == [symbol |-> "", base |-> 0, closed |-> FALSE]

\* No backtest is running.
NoBacktest == data = None /\ bt = None /\ bt2 = None /\ now2 = 0

\* No function is being called on its own.
NoCall == args = None /\ result = None

\* Neither the backtest nor the live driver is running.
NoDriver == NoBacktest /\ live = None /\ NoCall

\* The history of an open being followed ends with the step after its close.
Followed == IF h_open.closed THEN NoOpen ELSE h_open

Init ==
    /\ \E c \in InitialCapitals : portfolio = PortfolioManager(c)
    /\ now = 0
    /\ last = Op("init", TRUE, "")
    /\ h_open = NoOpen
    /\ NoDriver

\* The signals open_position is called with: built by the strategy's
\* formula and stamped with the current time t (test_suite.py:128-137).
EntrySignals(t) ==
    {EntrySignal(symbol, SignalPrice(symbol), t, Confidence, 0) :
        symbol \in Symbols}

\* portfolio.open_position(signal, shares).
OpenPosition ==
    \E signal \in EntrySignals(now) :
      \E shares \in ShareChoices(signal.symbol) :
        LET r == open_position(portfolio, signal, shares)
        IN  /\ portfolio' = r.pf
            /\ last' = Op("open", r.ret # None,
                          can_open_position(portfolio, signal, shares).reason)
            /\ h_open' = IF r.ret # None
                           THEN [symbol |-> signal.symbol,
                                 base |-> Len(portfolio.closed_trades),
                                 closed |-> FALSE]
                           ELSE Followed
            /\ UNCHANGED <<now, driver_vars>>

\* The exit signals close_position is called with for a symbol at time t:
\* when the symbol is held, the signals should_exit_position returns for
\* its position (backtester.py:236-246); when it is not, signals built by
\* hand (test_suite.py:174-181).
ExitSignals(pf, symbol, t) ==
    IF HasPosition(pf, symbol)
      THEN {should_exit_position(PositionOf(pf, symbol), price, t).ret :
                price \in MarketPrices(symbol)} \ {None}
      ELSE {ExitSignal(symbol, price, t, 100, "Manual exit") :
                price \in MarketPrices(symbol)}

\* portfolio.close_position(symbol, exit_signal).
ClosePosition ==
    \E symbol \in Symbols :
      \E exit_signal \in ExitSignals(portfolio, symbol, now) :
        /\ Len(portfolio.closed_trades) < MaxTrades
        /\ LET r == close_position(portfolio, symbol, exit_signal)
           IN  /\ portfolio' = r.pf
               /\ last' = Op("close", r.ret # None, "")
               /\ h_open' = IF r.ret = None THEN Followed
                              ELSE IF h_open.symbol = symbol /\ ~h_open.closed
                                THEN [h_open EXCEPT !.closed = TRUE]
                              ELSE NoOpen
        /\ UNCHANGED <<now, driver_vars>>

\* The price maps: every function from some of the symbols to their prices.
PriceMaps ==
    UNION {{f \in [held -> UNION {MarketPrices(x) : x \in held}] :
                \A x \in held : f[x] \in MarketPrices(x)} :
           held \in SUBSET Symbols}

\* portfolio.update_positions(price_data).
UpdatePositions ==
    \E price_data \in PriceMaps :
        /\ portfolio' = update_positions(portfolio, price_data, now)
        /\ last' = Op("update", TRUE, "")
        /\ h_open' = Followed
        /\ UNCHANGED <<now, driver_vars>>

\* strategy.should_exit_position(position, current_price) on a position of
\* the ledger: the position object is updated in place.
ExitCheck ==
    \E i \in 1..Len(portfolio.positions) :
      \E price \in MarketPrices(portfolio.positions[i].symbol) :
        LET r == should_exit_position(portfolio.positions[i], price, now)
        IN  /\ portfolio' = [portfolio EXCEPT !.positions[i] = r.position]
            /\ last' = Op("exit_check", r.ret # None,
                          IF r.ret = None THEN "" ELSE r.ret.reason)
            /\ h_open' = Followed
            /\ UNCHANGED <<now, driver_vars>>

\* save_portfolio_state, then load_portfolio_state of the file into a new
\* PortfolioManager(other capital), which replaces the ledger (a restart
\* of the live driver; test_suite.py:210-229).
SaveThenLoad ==
    \E c \in InitialCapitals \cup {50000} :
        /\ portfolio' = load_portfolio_state(PortfolioManager(c),
                                             save_portfolio_state(portfolio, now))
        /\ last' = Op("load", TRUE, "")
        /\ h_open' = NoOpen
        /\ UNCHANGED <<now, driver_vars>>

\* Time passes.
Tick ==
    /\ now < MaxNow
    /\ now' = now + 1
    /\ last' = Op("tick", TRUE, "")
    /\ h_open' = Followed
    /\ UNCHANGED <<portfolio, driver_vars>>

Next ==
    \/ OpenPosition
    \/ ClosePosition
    \/ UpdatePositions
    \/ ExitCheck
    \/ SaveThenLoad
    \/ Tick

Spec == Init /\ [][Next]_vars

----------------------------------------------------------------------------
(* Claims about the ledger, checked under Spec.                            *)

\* C1: once a successful open of a symbol has been followed (with only
\* mark-to-market calls, exit checks, rejected operations and clock ticks
\* in between) by a successful close of that symbol, the symbol is absent
\* from positions and closed_trades is exactly one entry longer than before
\* the open.
C1_OpenThenClose ==
    h_open.closed =>
        /\ ~HasPosition(portfolio, h_open.symbol)
        /\ Len(portfolio.closed_trades) = h_open.base + 1

\* An open of a symbol has been followed by its close.
C1_Witness == h_open.closed /\ last.op = "close" /\ last.ok

\* C4, as claimed: save then load into another instance yields the same
\* cash, initial capital, open positions with equal field values, and
\* closed-trade list.
C4_RoundTripExact ==
    [][last'.op = "load" =>
        /\ portfolio'.cash = portfolio.cash
        /\ portfolio'.initial_capital = portfolio.initial_capital
        /\ portfolio'.positions = portfolio.positions
        /\ portfolio'.closed_trades = portfolio.closed_trades]_vars

\* C4, amended: save then load yields the same cash, initial capital and
\* ordered closed-trade list, and the same open positions in the same order
\* with equal values of the persisted fields (symbol, entry_date,
\* entry_price, shares, stop_loss, profit_target, confidence,
\* current_price); days_held and unrealized_pnl, which are not persisted,
\* are back at their defaults 0 and 0.0.
C4_RoundTripPersisted ==
    [][last'.op = "load" =>
        /\ portfolio'.cash = portfolio.cash
        /\ portfolio'.initial_capital = portfolio.initial_capital
        /\ portfolio'.positions =
              [i \in 1..Len(portfolio.positions) |->
                  [portfolio.positions[i] EXCEPT !.days_held = 0,
                                                 !.unrealized_pnl = Zero]]
        /\ portfolio'.closed_trades = portfolio.closed_trades]_vars

\* A ledger with an open position that has been marked and a closed trade
\* has been saved and loaded.
C4_Witness ==
    /\ last.op = "load"
    /\ Len(portfolio.positions) > 0
    /\ Len(portfolio.closed_trades) > 0
    /\ \E i \in 1..Len(portfolio.positions) :
          portfolio.positions[i].current_price
              # portfolio.positions[i].entry_price

\* The calls of can_open_position the model makes in the current state.
OpenCalls ==
    {<<signal, shares>> \in EntrySignals(now) \X {1, 2} :
        shares \in ShareChoices(signal.symbol)}

\* C5, as claimed: in every reachable state, a call of can_open_position
\* with shares x price + commission > cash returns False with the cash
\* reason.
C5_CashReasonAlways ==
    \A call \in OpenCalls :
        call[2] * call[1].price + commission > portfolio.cash =>
            can_open_position(portfolio, call[1], call[2])
                = Rejected("Insufficient cash")

\* C5, amended: a call of can_open_position with shares x price +
\* commission > cash always returns False; the reason is the cash one when
\* fewer than max_positions positions are open and the symbol is not held,
\* and otherwise it is the position-limit reason or, below the limit, the
\* already-held reason.
C5_CashShortRejected ==
    \A call \in OpenCalls :
        call[2] * call[1].price + commission > portfolio.cash =>
            LET answer == can_open_position(portfolio, call[1], call[2])
            IN  /\ ~answer.ok
                /\ answer.reason =
                      IF Len(portfolio.positions) >= max_positions
                        THEN "Maximum positions limit"
                      ELSE IF call[1].symbol \in OpenSymbols(portfolio)
                        THEN "Already have position"
                      ELSE "Insufficient cash"

\* An open has been rejected for want of cash while a position is held.
C5_Witness ==
    /\ last.op = "open" /\ ~last.ok /\ last.reason = "Insufficient cash"
    /\ Len(portfolio.positions) > 0

\* C8: the number of open positions never exceeds max_positions and no two
\* positions have the same symbol.
C8_PositionLimit ==
    /\ Len(portfolio.positions) <= max_positions
    /\ \A i, j \in 1..Len(portfolio.positions) :
          portfolio.positions[i].symbol = portfolio.positions[j].symbol
              => i = j

\* The limit is reached and an open has been rejected because of it.
C8_Witness ==
    /\ Len(portfolio.positions) = max_positions
    /\ last.op = "open" /\ ~last.ok
    /\ last.reason = "Maximum positions limit"

\* C9, as claimed: right after every successful open, cash is at least
\* cash_reserve x total portfolio value.
C9_ReserveKept ==
    (last.op = "open" /\ last.ok) =>
        portfolio.cash * (1000 \div cash_reserve)
            >= get_portfolio_value(portfolio)

\* C10: a rejected operation changes nothing.  Whenever can_open_position
\* is false, open_position returns None and the same ledger; whenever the
\* symbol is not held, close_position returns None and the same ledger.
C10_RejectedChangesNothing ==
    /\ \A call \in OpenCalls :
          ~can_open_position(portfolio, call[1], call[2]).ok =>
              open_position(portfolio, call[1], call[2])
                  = [pf |-> portfolio, ret |-> None]
    /\ \A symbol \in Symbols \ OpenSymbols(portfolio) :
          \A exit_signal \in ExitSignals(portfolio, symbol, now) :
              close_position(portfolio, symbol, exit_signal)
                  = [pf |-> portfolio, ret |-> None]

\* An open has been rejected while its symbol is held.
C10_Witness ==
    /\ last.op = "open" /\ ~last.ok
    /\ last.reason = "Already have position"

C12_UpdateFrame ==
    \A price_data \in PriceMaps :
        LET pf == update_positions(portfolio, price_data, now)
        IN  /\ pf.cash = portfolio.cash
            /\ pf.initial_capital = portfolio.initial_capital
            /\ pf.closed_trades = portfolio.closed_trades
            /\ Len(pf.positions) = Len(portfolio.positions)
            /\ \A i \in 1..Len(portfolio.positions) :
                  LET old == portfolio.positions[i]
                      new == pf.positions[i]
                  IN  IF old.symbol \in DOMAIN price_data
                        THEN new = [old EXCEPT
                                      !.current_price = new.current_price,
                                      !.days_held = new.days_held,
                                      !.unrealized_pnl = new.unrealized_pnl]
                        ELSE new = old

\* Two positions are held and a map with a price for only one of them has
\* been applied: that one is marked at a new price, the other is not.
C12_Witness ==
    /\ last.op = "update"
    /\ Len(portfolio.positions) = 2
    /\ portfolio.positions[1].current_price
          # portfolio.positions[1].entry_price
    /\ portfolio.positions[2].current_price
          = portfolio.positions[2].entry_price
    /\ portfolio.positions[2].days_held = 0
    /\ now > portfolio.positions[2].entry_date

----------------------------------------------------------------------------
(* should_exit_position as a function of its inputs: one position whose    *)
(* levels are drawn freely (a Position is built from any signal, so its    *)
(* stop may lie above its target), a wall-clock time and a price.          *)

ExitStops == {92000, 125000, 130000}
ExitTargets == {125000}
ExitNows == {0, max_holding_days - 1, max_holding_days, max_holding_days + 1}
ExitPrices ==
    {90000, 92000, 100000, 109000, 110000, 120000, 124000, 125000, 128000,
     130000}

InitExit ==
    /\ \E stop_loss \in ExitStops, profit_target \in ExitTargets :
          portfolio =
              [PortfolioManager(200000) EXCEPT
                  !.positions =
                      <<Position("AAA", 0, 100000, 1, stop_loss, profit_target,
                                 Confidence, 100000)>>]
    /\ now \in ExitNows
    /\ last = Op("init", TRUE, "")
    /\ h_open = NoOpen
    /\ NoDriver

\* strategy.should_exit_position(position, current_price).
ShouldExit ==
    \E price \in ExitPrices :
        LET r == should_exit_position(portfolio.positions[1], price, now)
        IN  /\ portfolio' = [portfolio EXCEPT !.positions[1] = r.position]
            /\ last' = Op("exit_check", r.ret # None,
                          IF r.ret = None THEN "" ELSE r.ret.reason)
            /\ UNCHANGED <<now, h_open, driver_vars>>

NextExit == ShouldExit

SpecExit == InitExit /\ [][NextExit]_vars

\* C3: should_exit_position returns the signal of the first rule, in the
\* order stop loss, profit target, time stop, trailing stop, whose condition
\* holds, and None when no condition holds; a price that is both at or
\* below the stop and at or above the target yields the stop-loss signal
\* with confidence 1.0.
C3_ExitPriority ==
    \A price \in ExitPrices :
        LET position == portfolio.positions[1]
            ret == should_exit_position(position, price, now).ret
            entry == position.entry_price
            stop == price <= position.stop_loss
            target == price >= position.profit_target
            time == now - position.entry_date >= max_holding_days
            trailing ==
                /\ (price - entry) * 1000 >= trailing_stop_trigger * entry
                /\ price * 1000
                      <= entry * 1000 + (price - entry) * 1000
                            - trailing_stop_percent * entry
            Is(reason, confidence) ==
                /\ ret # None
                /\ ret.reason = reason
                /\ ret.confidence = confidence
                /\ ret.signal_type = "SELL"
                /\ ret.symbol = position.symbol
                /\ ret.price = price
        IN  /\ stop => Is("Stop loss triggered", 100)
            /\ ~stop /\ target => Is("Profit target reached", 100)
            /\ ~stop /\ ~target /\ time
                  => Is("Time stop (max holding period)", 80)
            /\ ~stop /\ ~target /\ ~time /\ trailing
                  => Is("Trailing stop", 90)
            /\ ~stop /\ ~target /\ ~time /\ ~trailing => ret = None

\* A price at or below the stop and at or above the target has been
\* checked, and the stop-loss signal came back.
C3_Witness ==
    /\ last.op = "exit_check" /\ last.reason = "Stop loss triggered"
    /\ portfolio.positions[1].current_price
          <= portfolio.positions[1].stop_loss
    /\ portfolio.positions[1].current_price
          >= portfolio.positions[1].profit_target

----------------------------------------------------------------------------
(* backtester.py: the Backtest Engine.  Trading days are the days          *)
(* 1..MaxDay.  The historical data of a symbol is its close of each day    *)
(* and what the detector's contraction analysis finds in it: no pattern,   *)
(* or a pattern with its resistance level (the start price of the last     *)
(* contraction), its confidence score and the volume ratio of its          *)
(* breakout bar, in tenths.  Bars before day 1 close below the resistance. *)

MaxDay == 3

\* The symbols of the run, in the order of the historical_data dict.
BacktestSymbols == <<"AAA", "BBB">>

ClosePrices(symbol) ==
    IF symbol = "AAA" THEN {9000, 10000, 13000} ELSE {9000, 10000}

Patterns == {None, [resistance |-> 9500, confidence |-> 85, volume_ratio |-> 20]}

\* The wall-clock times at which a run over data ending on MaxDay starts.
BacktestNows == {MaxDay, MaxDay + 5}

\* Strategy configuration (trading_strategy.py:70-93).
min_confidence == 80
min_volume_ratio == 15
risk_per_trade == 20
max_position_size == 100
bear_market_reduction == 500
strategy_max_positions == max_positions

Range(seq) == {seq[i] : i \in 1..Len(seq)}

HistoricalData ==
    {[close |-> close, pattern |-> pattern, favorable |-> favorable] :
        close \in {c \in [Range(BacktestSymbols) -> [1..MaxDay -> {9000, 10000, 13000}]] :
                      \A x \in Range(BacktestSymbols), d \in 1..MaxDay :
                          c[x][d] \in ClosePrices(x)},
        pattern \in [Range(BacktestSymbols) -> Patterns],
        favorable \in BOOLEAN}

\* data[data.index <= current_date]['close'].iloc[-1]
CurrentClose(hd, symbol, current_date) == hd.close[symbol][current_date]

\* A VCPResult; breakout holds breakout_date and breakout_price, and is
\* None when both are.
VCPResult(detected, confidence, breakout) ==
    [detected |-> detected, confidence |-> confidence, breakout |-> breakout]

\* vcp_detector._detect_breakout on the bars up to current_date: the first
\* of the last 10 bars whose close is above the resistance level.
detect_breakout(hd, symbol, current_date) ==
    LET recent == {d \in 1..current_date : d > current_date - 10}
        above == {d \in recent :
                    hd.close[symbol][d] > hd.pattern[symbol].resistance}
    IN  IF above = {} THEN None
        ELSE LET date == CHOOSE d \in above : \A e \in above : d <= e
             IN  [date |-> date, price |-> hd.close[symbol][date]]

\* vcp_detector.detect_vcp on the bars up to current_date.
detect_vcp(hd, symbol, current_date) ==
    IF hd.pattern[symbol] = None
      THEN VCPResult(FALSE, 0, None)
      ELSE VCPResult(TRUE, hd.pattern[symbol].confidence,
                     detect_breakout(hd, symbol, current_date))

\* strategy.analyze_vcp_signal at wall-clock time t; volume_ratio is what
\* _calculate_volume_ratio returns and favorable what _is_market_favorable
\* answers.
analyze_vcp_signal(vcp_result, symbol, volume_ratio, favorable, t) ==
    IF ~vcp_result.detected THEN None
    ELSE IF vcp_result.confidence < min_confidence THEN None
    ELSE IF vcp_result.breakout = None THEN None
    ELSE IF t - vcp_result.breakout.date > 5 THEN None
    ELSE IF volume_ratio < min_volume_ratio THEN None
    ELSE IF ~favorable THEN None
    ELSE EntrySignal(symbol, vcp_result.breakout.price,
                     vcp_result.breakout.date, vcp_result.confidence,
                     volume_ratio)

Min(a, b) == IF a <= b THEN a ELSE b

Max(a, b) == IF a >= b THEN a ELSE b

\* int(n / d) for d > 0: the quotient rounded toward zero.
int(n, d) == IF n >= 0 THEN n \div d ELSE -((-n) \div d)

\* The mutant of calculate_position_size without the maximum position size
\* constraint.
calculate_position_size_by_risk(signal, portfolio_value, favorable) ==
    LET price_risk == signal.price - signal.stop_loss
        shares == int(portfolio_value * risk_per_trade, 1000 * price_risk)
    IN  IF price_risk <= 0 THEN 0
        ELSE IF ~favorable
          THEN Max(0, int(shares * bear_market_reduction, 1000))
        ELSE Max(0, shares)

\* strategy.calculate_position_size; the quotients are of per-mille
\* fractions of the portfolio value.
calculate_position_size(signal, portfolio_value, favorable) ==
    LET price_risk == signal.price - signal.stop_loss
        shares_by_risk ==
            int(portfolio_value * risk_per_trade, 1000 * price_risk)
        max_shares_by_value ==
            int(portfolio_value * max_position_size, 1000 * signal.price)
        shares == Min(shares_by_risk, max_shares_by_value)
    IN  IF price_risk <= 0 THEN 0
        ELSE IF ~favorable
          THEN Max(0, int(shares * bear_market_reduction, 1000))
        ELSE Max(0, shares)

RECURSIVE CloseEach(_, _)
\* The loop "for symbol, exit_signal in symbols_to_exit" of _process_exits.
CloseEach(pf, symbols_to_exit) ==
    IF symbols_to_exit = <<>> THEN pf
    ELSE CloseEach(close_position(pf, Head(symbols_to_exit)[1],
                                  Head(symbols_to_exit)[2]).pf,
                   Tail(symbols_to_exit))

RECURSIVE ExitsOf(_)
\* The list symbols_to_exit built from the results of the exit checks.
ExitsOf(checks) ==
    IF checks = <<>> THEN <<>>
    ELSE IF Head(checks).ret = None THEN ExitsOf(Tail(checks))
    ELSE <<<<Head(checks).position.symbol, Head(checks).ret>>>>
            \o ExitsOf(Tail(checks))

\* The exit checks _process_exits makes on current_date, at time t.
ExitChecks(pf, hd, current_date, t) ==
    [i \in 1..Len(pf.positions) |->
        should_exit_position(
            pf.positions[i],
            CurrentClose(hd, pf.positions[i].symbol, current_date), t)]

\* backtester._process_exits on current_date, at wall-clock time t.
process_exits(pf, hd, current_date, t) ==
    LET checks == ExitChecks(pf, hd, current_date, t)
        checked == [pf EXCEPT !.positions =
                        [i \in 1..Len(checks) |-> checks[i].position]]
    IN  CloseEach(checked, ExitsOf(checks))

\* One iteration of the loop of _process_entries, for one symbol.
ProcessEntry(pf, hd, symbol, current_date, t) ==
    IF HasPosition(pf, symbol) THEN pf
    ELSE
      LET vcp_result == detect_vcp(hd, symbol, current_date)
          signal ==
              analyze_vcp_signal(vcp_result, symbol,
                                 hd.pattern[symbol].volume_ratio,
                                 hd.favorable, t)
          shares ==
              calculate_position_size(signal, get_portfolio_value(pf),
                                      hd.favorable)
      IN  IF ~vcp_result.detected THEN pf
          ELSE IF vcp_result.breakout = None THEN pf
          ELSE IF Abs(current_date - vcp_result.breakout.date) > 2 THEN pf
          ELSE IF signal = None THEN pf
          ELSE IF shares > 0 THEN open_position(pf, signal, shares).pf
          ELSE pf

RECURSIVE ProcessEntries(_, _, _, _, _)
ProcessEntries(pf, hd, symbols, current_date, t) ==
    IF symbols = <<>> THEN pf
    ELSE ProcessEntries(ProcessEntry(pf, hd, Head(symbols), current_date, t),
                        hd, Tail(symbols), current_date, t)

\* backtester._process_entries on current_date, at wall-clock time t.
process_entries(pf, hd, current_date, t) ==
    IF Len(pf.positions) >= strategy_max_positions THEN pf
    ELSE ProcessEntries(pf, hd, BacktestSymbols, current_date, t)

\* backtester._get_current_prices on current_date.
get_current_prices(hd, current_date) ==
    [symbol \in Range(BacktestSymbols) |->
        CurrentClose(hd, symbol, current_date)]

\* A run of run_backtest: its ledger, the trading day and the step of the
\* day it is about to make, the daily values recorded, and (history) the
\* symbols closed by the exit step of the day.
Run(pf, day, pc, daily_values, closed_today) ==
    [portfolio |-> pf, day |-> day, pc |-> pc,
     daily_values |-> daily_values, closed_today |-> closed_today]

\* The exit step of the day (backtester.py:110).
RunExits(run, hd, t) ==
    LET pf == process_exits(run.portfolio, hd, run.day, t)
    IN  Run(pf, run.day, "entries", run.daily_values,
            OpenSymbols(run.portfolio) \ OpenSymbols(pf))

\* The mutant of the entry step that checks the exits again after the
\* entries.
RunEntriesThenExits(run, hd, t) ==
    Run(process_exits(process_entries(run.portfolio, hd, run.day, t),
                      hd, run.day, t),
        run.day, "record", run.daily_values, run.closed_today)

\* The entry step of the day (backtester.py:113).
RunEntries(run, hd, t) ==
    Run(process_entries(run.portfolio, hd, run.day, t), run.day, "record",
        run.daily_values, run.closed_today)

\* The record of the day without the valuation at the day's closes.
RunRecordUnmarked(run, hd, t) ==
    Run(run.portfolio, run.day + 1, "exits",
        Append(run.daily_values,
               [date |-> run.day,
                portfolio_value |-> get_portfolio_value(run.portfolio),
                cash |-> run.portfolio.cash,
                num_positions |-> Len(run.portfolio.positions)]),
        run.closed_today)

\* The valuation of the day and its record (backtester.py:116-126).
RunRecord(run, hd, t) ==
    LET pf == update_positions(run.portfolio,
                               get_current_prices(hd, run.day), t)
    IN  Run(pf, run.day + 1, "exits",
            Append(run.daily_values,
                   [date |-> run.day,
                    portfolio_value |-> get_portfolio_value(pf),
                    cash |-> pf.cash,
                    num_positions |-> Len(pf.positions)]),
            run.closed_today)

\* Two runs of run_backtest over the same historical data with the same
\* initial capital, each at its own wall-clock time.
InitBacktest ==
    /\ data \in HistoricalData
    /\ now \in BacktestNows
    /\ now2 \in BacktestNows
    /\ \E c \in InitialCapitals :
          /\ bt = Run(PortfolioManager(c), 1, "exits", <<>>, {})
          /\ bt2 = Run(PortfolioManager(c), 1, "exits", <<>>, {})
    /\ portfolio = None
    /\ last = Op("init", TRUE, "")
    /\ h_open = NoOpen
    /\ live = None
    /\ NoCall

ProcessExitsStep ==
    /\ bt.day <= MaxDay /\ bt.pc = "exits"
    /\ bt' = RunExits(bt, data, now)
    /\ bt2' = RunExits(bt2, data, now2)
    /\ UNCHANGED <<data, now, now2, ledger_vars, live, call_vars>>

ProcessEntriesStep ==
    /\ bt.day <= MaxDay /\ bt.pc = "entries"
    /\ bt' = RunEntries(bt, data, now)
    /\ bt2' = RunEntries(bt2, data, now2)
    /\ UNCHANGED <<data, now, now2, ledger_vars, live, call_vars>>

RecordStep ==
    /\ bt.day <= MaxDay /\ bt.pc = "record"
    /\ bt' = RunRecord(bt, data, now)
    /\ bt2' = RunRecord(bt2, data, now2)
    /\ UNCHANGED <<data, now, now2, ledger_vars, live, call_vars>>

NextBacktest ==
    \/ ProcessExitsStep
    \/ ProcessEntriesStep
    \/ RecordStep

SpecBacktest == InitBacktest /\ [][NextBacktest]_vars

\* C2, as claimed: a symbol closed by the exit step of a day is not held
\* again on that day: until the next day's exit step, no symbol closed
\* today has an open position.
C2_NoSameDayReopen ==
    bt.closed_today \cap OpenSymbols(bt.portfolio) = {}

\* C6, as claimed: two runs over the same data with the same capital and
\* market answers have the same closed trades and the same daily values,
\* whatever their wall-clock times.
C6_Deterministic ==
    /\ bt.portfolio.closed_trades = bt2.portfolio.closed_trades
    /\ bt.daily_values = bt2.daily_values

----------------------------------------------------------------------------
(* paper_trader.py: the live cycle driver.  run_trading_cycle is followed  *)
(* call by call; the candidates file is absent, so process_vcp_candidates  *)
(* returns at once.  The market of a cycle is the last close fetched for   *)
(* each symbol and the symbols for which the detector reports a breakout   *)
(* of today at BreakoutPrice.                                              *)

MaxCycles == 2

LiveSymbols == <<"AAA", "BBB">>
LiveQuotes == {9000, 10000, 13000}
BreakoutPrice == SignalPrice("AAA")
LiveVolumeRatio == min_volume_ratio + 5

\* The PaperTrader between calls: where it is in run_trading_cycle, its
\* watchlist, the market of the cycle, the signals the scans returned, the
\* cycles completed and (history) the ledger calls of the cycle in order.
Trader(pc, watchlist, quotes, fresh, entry_signals, exit_signals, cycles, log) ==
    [pc |-> pc, watchlist |-> watchlist, quotes |-> quotes, fresh |-> fresh,
     entry_signals |-> entry_signals, exit_signals |-> exit_signals,
     cycles |-> cycles, log |-> log]

RECURSIVE ScanEntries(_, _, _, _)
\* The loop of scan_for_entries over the watchlist at wall-clock time t.
ScanEntries(pf, watchlist, fresh, t) ==
    IF watchlist = <<>> THEN <<>>
    ELSE
      LET symbol == Head(watchlist)
          rest == ScanEntries(pf, Tail(watchlist), fresh, t)
          vcp_result ==
              IF symbol \in fresh
                THEN VCPResult(TRUE, Confidence,
                               [date |-> t, price |-> BreakoutPrice])
                ELSE VCPResult(FALSE, 0, None)
          signal == analyze_vcp_signal(vcp_result, symbol, LiveVolumeRatio,
                                       TRUE, t)
      IN  IF HasPosition(pf, symbol) THEN rest
          ELSE IF ~(vcp_result.detected /\ vcp_result.breakout # None)
            THEN rest
          ELSE IF t - vcp_result.breakout.date > 3 THEN rest
          ELSE IF signal = None THEN rest
          ELSE <<signal>> \o rest

\* scan_for_entries.
scan_for_entries(pf, trader, t) ==
    ScanEntries(pf, trader.watchlist, trader.fresh, t)

\* The exit checks scan_for_exits makes at wall-clock time t.
LiveChecks(pf, quotes, t) ==
    [i \in 1..Len(pf.positions) |->
        should_exit_position(pf.positions[i],
                             quotes[pf.positions[i].symbol], t)]

RECURSIVE SignalsOf(_)
\* The list exit_signals built from the results of the exit checks.
SignalsOf(checks) ==
    IF checks = <<>> THEN <<>>
    ELSE IF Head(checks).ret = None THEN SignalsOf(Tail(checks))
    ELSE <<Head(checks).ret>> \o SignalsOf(Tail(checks))

RECURSIVE Remove(_, _)
\* list.remove(x): the list without the first occurrence of x.
Remove(list, x) ==
    IF list = <<>> THEN <<>>
    ELSE IF Head(list) = x THEN Tail(list)
    ELSE <<Head(list)>> \o Remove(Tail(list), x)

\* add_to_watchlist([symbol]).
add_to_watchlist(watchlist, symbol) ==
    IF symbol \in Range(watchlist) THEN watchlist
    ELSE Append(watchlist, symbol)

RECURSIVE execute_entries(_, _, _, _)
\* execute_entries: the ledger, the watchlist and the log after the loop.
execute_entries(pf, watchlist, log, entry_signals) ==
    IF entry_signals = <<>>
      THEN [pf |-> pf, watchlist |-> watchlist, log |-> log]
    ELSE
      LET signal == Head(entry_signals)
          shares == calculate_position_size(signal, get_portfolio_value(pf),
                                            TRUE)
          r == open_position(pf, signal, shares)
      IN  IF shares > 0
            THEN execute_entries(
                    r.pf,
                    IF r.ret # None THEN Remove(watchlist, signal.symbol)
                    ELSE watchlist,
                    Append(log, [call |-> "open", symbol |-> signal.symbol]),
                    Tail(entry_signals))
            ELSE execute_entries(pf, watchlist, log, Tail(entry_signals))

RECURSIVE execute_exits(_, _, _, _)
\* execute_exits: the ledger, the watchlist and the log after the loop.
execute_exits(pf, watchlist, log, exit_signals) ==
    IF exit_signals = <<>>
      THEN [pf |-> pf, watchlist |-> watchlist, log |-> log]
    ELSE
      LET signal == Head(exit_signals)
          r == close_position(pf, signal.symbol, signal)
      IN  execute_exits(
              r.pf,
              IF r.ret # None /\ r.ret.pnl_percent[1] > 0
                THEN add_to_watchlist(watchlist, signal.symbol)
                ELSE watchlist,
              Append(log, [call |-> "close", symbol |-> signal.symbol]),
              Tail(exit_signals))

\* update_portfolio_prices at wall-clock time t.
update_portfolio_prices(pf, quotes, t) ==
    IF pf.positions = <<>> THEN pf
    ELSE update_positions(pf, [x \in OpenSymbols(pf) |-> quotes[x]], t)

InitLive ==
    /\ \E c \in InitialCapitals : portfolio = PortfolioManager(c)
    /\ now = 0
    /\ live = Trader("scan_entries", LiveSymbols,
                     [x \in Range(LiveSymbols) |-> BreakoutPrice], {},
                     <<>>, <<>>, 0, <<>>)
    /\ last = Op("init", TRUE, "")
    /\ h_open = NoOpen
    /\ NoBacktest
    /\ NoCall

\* A cycle starts: entry_signals = self.scan_for_entries(), on the market
\* of the cycle (paper_trader.py:316).
ScanForEntries ==
    /\ live.pc = "scan_entries" /\ live.cycles < MaxCycles
    /\ \E quotes \in [Range(LiveSymbols) -> LiveQuotes],
          fresh \in SUBSET Range(LiveSymbols) :
          LET trader == [live EXCEPT !.quotes = quotes, !.fresh = fresh,
                                     !.log = <<>>]
          IN  live' = [trader EXCEPT
                          !.pc = "scan_exits",
                          !.entry_signals =
                              scan_for_entries(portfolio, trader, now)]
    /\ UNCHANGED <<portfolio, now, last, h_open, backtest_vars, call_vars>>

\* exit_signals = self.scan_for_exits() (paper_trader.py:319).
ScanForExits ==
    /\ live.pc = "scan_exits"
    /\ LET checks == LiveChecks(portfolio, live.quotes, now)
       IN  /\ portfolio' = [portfolio EXCEPT !.positions =
                               [i \in 1..Len(checks) |-> checks[i].position]]
           /\ live' = [live EXCEPT !.pc = "execute_entries",
                                   !.exit_signals = SignalsOf(checks)]
    /\ UNCHANGED <<now, last, h_open, backtest_vars, call_vars>>

\* executed_entries = self.execute_entries(entry_signals)
\* (paper_trader.py:322).
ExecuteEntries ==
    /\ live.pc = "execute_entries"
    /\ LET r == execute_entries(portfolio, live.watchlist, live.log,
                                live.entry_signals)
       IN  /\ portfolio' = r.pf
           /\ live' = [live EXCEPT !.pc = "execute_exits",
                                   !.watchlist = r.watchlist,
                                   !.log = r.log]
    /\ UNCHANGED <<now, last, h_open, backtest_vars, call_vars>>

\* executed_exits = self.execute_exits(exit_signals) (paper_trader.py:323).
ExecuteExits ==
    /\ live.pc = "execute_exits"
    /\ LET r == execute_exits(portfolio, live.watchlist, live.log,
                              live.exit_signals)
       IN  /\ portfolio' = r.pf
           /\ live' = [live EXCEPT !.pc = "finish",
                                   !.watchlist = r.watchlist,
                                   !.log = r.log]
    /\ UNCHANGED <<now, last, h_open, backtest_vars, call_vars>>

\* The rest of the cycle: update_portfolio_prices and save_state
\* (paper_trader.py:326-329); the next cycle runs the next day.
FinishCycle ==
    /\ live.pc = "finish"
    /\ portfolio' = update_portfolio_prices(portfolio, live.quotes, now)
    /\ live' = [live EXCEPT !.pc = "scan_entries", !.cycles = @ + 1,
                            !.entry_signals = <<>>, !.exit_signals = <<>>]
    /\ now' = now + 1
    /\ UNCHANGED <<last, h_open, backtest_vars, call_vars>>

NextLive ==
    \/ ScanForEntries
    \/ ScanForExits
    \/ ExecuteEntries
    \/ ExecuteExits
    \/ FinishCycle

SpecLive == InitLive /\ [][NextLive]_vars

\* C7, as claimed: within a cycle every close_position call is made before
\* any open_position call: in the cycle's sequence of ledger calls no close
\* comes after an open.
C7_ExitsBeforeEntries ==
    \A i, j \in 1..Len(live.log) :
        (i < j /\ live.log[i].call = "open") => live.log[j].call # "close"

----------------------------------------------------------------------------
(* analyze_vcp_signal as a function of its inputs: the detector's result,  *)
(* the price data (one bar a day, each with its volume), the market answer *)
(* and the wall clock.                                                     *)

\* _calculate_volume_ratio: the bars it averages and the fewest it accepts
\* (trading_strategy.py:274-275).
VolumeWindow == 20
MinVolumeBars == 10

\* The day of the breakout in the inputs.
BreakoutDay == VolumeWindow + MinVolumeBars

\* The data frames: n bars on the days before BreakoutDay, the last
\* VolumeWindow of them with volume v and the older ones with volume older,
\* followed, when with_breakout, by the bar of BreakoutDay with volume bv.
Bars(n, older, v, with_breakout, bv) ==
    [i \in 1..n |->
        [date |-> BreakoutDay - n + i - 1,
         volume |-> IF i <= n - VolumeWindow THEN older ELSE v]]
    \o (IF with_breakout
          THEN <<[date |-> BreakoutDay, volume |-> bv]>>
          ELSE <<>>)

DataFrames ==
    {Bars(n, 10000, v, with_breakout, bv) :
        n \in {0, MinVolumeBars - 1, MinVolumeBars, VolumeWindow,
               VolumeWindow + 1},
        v \in {0, 100},
        with_breakout \in BOOLEAN,
        bv \in {140, 150}}

VCPResults ==
    {VCPResult(detected, confidence, breakout) :
        detected \in BOOLEAN,
        confidence \in {min_confidence - 1, min_confidence, Confidence},
        breakout \in {None, [date |-> BreakoutDay, price |-> 10000]}}

EntryNows == {BreakoutDay - 1, BreakoutDay, BreakoutDay + 5, BreakoutDay + 6}

\* data[data.index < breakout_date].tail(20)
RecentBars(bars, breakout_date) ==
    LET before == SelectSeq(bars, LAMBDA bar : bar.date < breakout_date)
    IN  IF Len(before) <= VolumeWindow THEN before
        ELSE SubSeq(before, Len(before) - VolumeWindow + 1, Len(before))

\* data[data.index.date == breakout_date.date()]
BreakoutBars(bars, breakout_date) ==
    SelectSeq(bars, LAMBDA bar : bar.date = breakout_date)

\* The mutant of _calculate_volume_ratio that averages however few bars
\* precede the breakout.
calculate_volume_ratio_any_bars(bars, breakout_date) ==
    LET breakout_data == BreakoutBars(bars, breakout_date)
        recent_data == RecentBars(bars, breakout_date)
        total == SumSeq([i \in 1..Len(recent_data) |-> recent_data[i].volume])
    IN  IF breakout_data = <<>> THEN 0
        ELSE IF total > 0
          THEN (10 * breakout_data[1].volume * Len(recent_data)) \div total
        ELSE 0

\* strategy._calculate_volume_ratio, in tenths rounded down (the ratio is
\* only compared with min_volume_ratio, a whole number of tenths):
\* breakout_volume / avg_volume with avg_volume = total / len(recent_data).
calculate_volume_ratio(bars, breakout_date) ==
    LET breakout_data == BreakoutBars(bars, breakout_date)
        recent_data == RecentBars(bars, breakout_date)
        total == SumSeq([i \in 1..Len(recent_data) |-> recent_data[i].volume])
    IN  IF breakout_data = <<>> THEN 0
        ELSE IF Len(recent_data) < MinVolumeBars THEN 0
        ELSE IF total > 0
          THEN (10 * breakout_data[1].volume * Len(recent_data)) \div total
        ELSE 0

\* What a call returned.
Returned(value) == [value |-> value]

\* The ledger is not in use.
NoLedger == portfolio = None /\ last = Op("init", TRUE, "") /\ h_open = NoOpen

InitEntry ==
    /\ args \in {[vcp_result |-> vcp_result, symbol |-> "AAA",
                  current_data |-> current_data, favorable |-> favorable] :
                    vcp_result \in VCPResults,
                    current_data \in DataFrames,
                    favorable \in BOOLEAN}
    /\ now \in EntryNows
    /\ result = None
    /\ NoLedger
    /\ NoBacktest
    /\ live = None

\* strategy.analyze_vcp_signal(vcp_result, symbol, current_data).
AnalyzeVcpSignal ==
    /\ result = None
    /\ result' =
          Returned(analyze_vcp_signal(
              args.vcp_result, args.symbol,
              calculate_volume_ratio(args.current_data,
                                     args.vcp_result.breakout.date),
              args.favorable, now))
    /\ UNCHANGED <<args, now, ledger_vars, backtest_vars, live>>

NextEntry == AnalyzeVcpSignal

SpecEntry == InitEntry /\ [][NextEntry]_vars

\* The conditions of C13 on the inputs of the call, but for the volume.
EntryRulesButVolume ==
    /\ args.vcp_result.detected
    /\ args.vcp_result.confidence >= min_confidence
    /\ args.vcp_result.breakout # None
    /\ now - args.vcp_result.breakout.date <= 5
    /\ args.favorable

\* The bars before the breakout date, and the last 20 of them.
BarsBefore ==
    {i \in 1..Len(args.current_data) :
        args.current_data[i].date < args.vcp_result.breakout.date}

Trailing == {i \in BarsBefore : Cardinality({j \in BarsBefore : j >= i}) <= 20}

RECURSIVE VolumeOf(_)
VolumeOf(bars) ==
    IF bars = {} THEN 0
    ELSE LET i == CHOOSE j \in bars : TRUE
         IN  args.current_data[i].volume + VolumeOf(bars \ {i})

\* The breakout day has a bar whose volume, divided by the average volume of
\* the (up to) 20 bars before it, is at least min_volume_ratio.
VolumeConfirmed ==
    \E i \in 1..Len(args.current_data) :
        /\ args.current_data[i].date = args.vcp_result.breakout.date
        /\ Trailing # {}
        /\ VolumeOf(Trailing) > 0
        /\ 10 * args.current_data[i].volume * Cardinality(Trailing)
              >= min_volume_ratio * VolumeOf(Trailing)

\* What C13 says of a returned signal.
EntrySignalShape ==
    result.value # None =>
        /\ result.value.signal_type = "BUY"
        /\ result.value.price = args.vcp_result.breakout.price
        /\ result.value.stop_loss < result.value.price
        /\ result.value.price < result.value.profit_target

\* C13, as claimed: analyze_vcp_signal returns a BUY signal if and only if
\* the pattern is detected, the confidence is at least min_confidence, a
\* breakout exists and is at most 5 days old, the breakout-day volume over
\* the trailing 20-day average volume is at least min_volume_ratio and the
\* market is favorable; the signal is priced at the breakout price with
\* stop_loss < price < profit_target.
C13_EntryRules ==
    result # None =>
        /\ result.value # None <=> (EntryRulesButVolume /\ VolumeConfirmed)
        /\ EntrySignalShape

\* C13, amended: the same, where the volume rule also requires at least 10
\* bars before the breakout date: with fewer, no signal is returned
\* whatever the volumes.
C13_EntryRulesEnoughBars ==
    result # None =>
        /\ result.value # None <=>
              /\ EntryRulesButVolume
              /\ VolumeConfirmed
              /\ Cardinality(BarsBefore) >= 10
        /\ EntrySignalShape

\* A signal has been returned for a breakout five days old whose volume is
\* exactly min_volume_ratio times the average of the last 20 of 21 bars.
C13_Witness ==
    /\ result # None /\ result.value # None
    /\ now - args.vcp_result.breakout.date = 5
    /\ Cardinality(BarsBefore) = 21
    /\ args.vcp_result.confidence = min_confidence

----------------------------------------------------------------------------
(* calculate_position_size as a function of its inputs: a signal with its  *)
(* price and stop, the portfolio value and the market answer.              *)

SizePrices == {10000, 13000, 100000}
SizeStops == {0, 5000, 9200, 10000, 11960}
SizeValues == {0, 199000, 200000, 1000000, 2000000}

InitSize ==
    /\ args \in {[signal |-> TradeSignal("AAA", "BUY", price, 0, Confidence,
                                         "Test signal", 0, stop_loss, 0),
                  portfolio_value |-> portfolio_value,
                  favorable |-> favorable] :
                    price \in SizePrices, stop_loss \in SizeStops,
                    portfolio_value \in SizeValues, favorable \in BOOLEAN}
    /\ now = 0
    /\ result = None
    /\ NoLedger
    /\ NoBacktest
    /\ live = None

\* strategy.calculate_position_size(signal, portfolio_value).
CalculatePositionSize ==
    /\ result = None
    /\ result' = Returned(calculate_position_size(args.signal,
                                                  args.portfolio_value,
                                                  args.favorable))
    /\ UNCHANGED <<args, now, ledger_vars, backtest_vars, live>>

NextSize == CalculatePositionSize

SpecSize == InitSize /\ [][NextSize]_vars

\* floor(num / den) for num >= 0 and den > 0, by its defining property; no
\* quotient of the inputs exceeds 200.
Floor(num, den) ==
    CHOOSE k \in 0..200 : k * den <= num /\ num < (k + 1) * den

\* C14: calculate_position_size returns a non-negative integer n: 0 when
\* stop >= price, and otherwise the smaller of
\* floor(portfolio_value x risk_per_trade / (price - stop)) and
\* floor(portfolio_value x max_position_size / price), halved and floored
\* when the market is unfavorable; so n x (price - stop) <=
\* portfolio_value x risk_per_trade and n x price <=
\* portfolio_value x max_position_size.
C14_PositionSize ==
    result # None =>
        LET n == result.value
            price == args.signal.price
            stop == args.signal.stop_loss
            value == args.portfolio_value
            by_risk == Floor(value * 20, 1000 * (price - stop))
            by_value == Floor(value * 100, 1000 * price)
            smaller == IF by_risk <= by_value THEN by_risk ELSE by_value
        IN  /\ n \in Nat
            /\ stop >= price => n = 0
            /\ stop < price =>
                  /\ n = IF args.favorable THEN smaller
                         ELSE Floor(smaller * 5, 10)
                  /\ 1000 * n * (price - stop) <= value * 20
                  /\ 1000 * n * price <= value * 100

\* A size has been computed in an unfavorable market from an odd number of
\* shares, the size constraint being the smaller one.
C14_Witness ==
    /\ result # None /\ result.value = 7
    /\ ~args.favorable
    /\ args.signal.stop_loss = 11960

(***************************************************************************)
(* VCPDetector.detect_vcp as a function of its input.  The frame is what   *)
(* _validate_input_data and _meets_basic_requirements read of it: its      *)
(* columns, its number of bars, its latest close (mills) and its average   *)
(* volume.  What the pivot, contraction, volume, highs and breakout steps  *)
(* compute from the bars is an input, `steps`; a contraction is its        *)
(* pullback_percentage in tenths of a per cent.  `fault` names the step    *)
(* that raises and the text of the exception, None when no step raises.    *)
(* Confidences are per cent.  base_length_days is left out of the result.  *)
(***************************************************************************)

\* default_config of VCPDetector (vcp_detector.py:36-46).
min_contractions == 2
min_price == 10000
min_average_volume == 100000

\* optimal_contractions of _calculate_confidence_score.
optimal_contractions == 3

\* len(data) that _validate_input_data asks for.
MinBars == 30

required_columns == {"open", "high", "low", "close", "volume"}

Frame(columns, length, close, volume) ==
    [columns |-> columns, length |-> length, close |-> close, volume |-> volume]

\* No frame, an empty one, one without the volume column, one a bar short,
\* and full frames on both sides of the price and volume floors.
DetectFrames ==
    {None,
     Frame(required_columns, 0, min_price, min_average_volume),
     Frame(required_columns \ {"volume"}, MinBars, min_price, min_average_volume),
     Frame(required_columns, MinBars - 1, min_price, min_average_volume)}
    \cup {Frame(required_columns, MinBars, close, volume) :
            close \in {min_price - 10, min_price},
            volume \in {min_average_volume - 1, min_average_volume}}

\* Pullbacks of 5.0%, 5.8% and 10.0%: 5.8 is within the 20% tolerance of
\* 5.0 and outside the 10% one, 10.0 is outside both.
Pullbacks == {50, 58, 100}

ContractionLists == UNION {[1..n -> Pullbacks] : n \in 0..optimal_contractions}

\* What _analyze_volume_trend can answer for a non-empty contraction list.
VolumeTrends == {"decreasing", "stable", "increasing", "insufficient_data"}

\* What _detect_breakout answers: None for {'detected': False}.
BreakoutInfos ==
    {None} \cup {[date |-> BreakoutDay, price |-> BreakoutPrice,
                  volume_confirmed |-> volume_confirmed] :
                    volume_confirmed \in BOOLEAN}

\* The statements inside the try block of detect_vcp, in order.
DetectSteps ==
    <<"_meets_basic_requirements", "_identify_pivot_points",
      "_find_contractions", "_validate_contraction_pattern",
      "_analyze_volume_trend", "_is_price_near_highs", "_detect_breakout",
      "_calculate_confidence_score", "_calculate_base_length",
      "_generate_notes">>

Faults == {None} \cup {[step |-> step, text |-> "KeyError"] : step \in Range(DetectSteps)}

DetectInputs ==
    {[data |-> frame, symbol |-> "AAA",
      steps |-> [contractions |-> contractions, volume_trend |-> volume_trend,
                 near_highs |-> near_highs, breakout_info |-> breakout_info],
      fault |-> fault] :
        frame \in DetectFrames, contractions \in ContractionLists,
        volume_trend \in VolumeTrends, near_highs \in BOOLEAN,
        breakout_info \in BreakoutInfos, fault \in Faults}

\* VCPResult with all its fields but base_length_days.  A note is its text
\* and the string it formats in; numbers formatted into notes are left out.
DetectResult(detected, confidence, contractions, breakout, volume_trend, notes) ==
    [detected |-> detected, confidence |-> confidence,
     contractions |-> contractions, breakout |-> breakout,
     volume_trend |-> volume_trend, notes |-> notes]

validate_input_data(frame) ==
    IF frame = None THEN FALSE
    ELSE IF frame.length = 0 THEN FALSE
    ELSE IF \E col \in required_columns : col \notin frame.columns THEN FALSE
    ELSE IF frame.length < MinBars THEN FALSE
    ELSE TRUE

meets_basic_requirements(frame) ==
    frame.close >= min_price /\ frame.volume >= min_average_volume

\* pullbacks[i] <= pullbacks[i-1] * 1.2 for at least max(1, int(n * 0.7))
\* of the consecutive pairs.
validate_contraction_pattern(contractions) ==
    IF Len(contractions) < min_contractions THEN FALSE
    ELSE LET decreasing_count ==
                 Cardinality({i \in 2..Len(contractions) :
                     10 * contractions[i] <= 12 * contractions[i - 1]})
             required_decreasing == Max(1, int(Len(contractions) * 7, 10))
         IN  decreasing_count >= required_decreasing

Score(contractions, volume_trend, near_highs, breakout_info) ==
    (IF Len(contractions) >= min_contractions THEN 30 ELSE 0)
    + (IF Len(contractions) >= optimal_contractions THEN 10 ELSE 0)
    + (IF volume_trend = "decreasing" THEN 25
       ELSE IF volume_trend = "stable" THEN 10 ELSE 0)
    + (IF near_highs THEN 15 ELSE 0)
    + (IF breakout_info # None
         THEN 15 + (IF breakout_info.volume_confirmed THEN 10 ELSE 0)
         ELSE 0)
    + (IF Len(contractions) >= 2
            /\ \A i \in 2..Len(contractions) :
                  10 * contractions[i] <= 11 * contractions[i - 1]
         THEN 10 ELSE 0)

calculate_confidence_score_uncapped(contractions, volume_trend, near_highs, breakout_info) ==
    Score(contractions, volume_trend, near_highs, breakout_info)

\* The mutant of _calculate_confidence_score that gives the volume-confirmed
\* points to every breakout.
calculate_confidence_score_any_breakout(contractions, volume_trend, near_highs, breakout_info) ==
    Min(100, Score(contractions, volume_trend, near_highs,
                   IF breakout_info = None THEN None
                   ELSE [breakout_info EXCEPT !.volume_confirmed = TRUE]))

calculate_confidence_score(contractions, volume_trend, near_highs, breakout_info) ==
    Min(100, Score(contractions, volume_trend, near_highs, breakout_info))

generate_notes(contractions, volume_trend, near_highs, breakout_info) ==
    <<<<"contractions detected", "">>>>
    \o (IF Len(contractions) > 0 THEN <<<<"Pullback range: ", "">>>> ELSE <<>>)
    \o <<<<"Volume trend: ", volume_trend>>>>
    \o (IF near_highs THEN <<<<"Price near recent highs", "">>>> ELSE <<>>)
    \o (IF breakout_info = None THEN <<>>
        ELSE IF breakout_info.volume_confirmed
          THEN <<<<"Breakout detected with volume confirmation", "">>>>
          ELSE <<<<"Breakout detected without volume confirmation", "">>>>)
    \o <<<<"Confidence: ", "">>>>

\* Position of a step in the try block.
StepIndex(step) == CHOOSE i \in 1..Len(DetectSteps) : DetectSteps[i] = step

\* The fault is raised by one of the steps from..to of the try block.
Raises(fault, from, to) ==
    fault # None /\ StepIndex(fault.step) >= StepIndex(from)
                 /\ StepIndex(fault.step) <= StepIndex(to)

\* An exception that leaves detect_vcp.
Raised(text) == [raised |-> text]

\* An except clause that raises the exception again.
ErrorResult_reraise(fault) == Raised(fault.text)

\* The except clause of detect_vcp.
ErrorResult(fault) ==
    DetectResult(FALSE, 0, <<>>, None, "error",
                 <<<<"Error in detection: ", fault.text>>>>)

\* The verdict with the threshold itself on the undetected side.
Detected_above(is_valid_pattern, confidence, count) ==
    is_valid_pattern /\ confidence > 50 /\ count >= min_contractions

\* The verdict without the pattern validation.
Detected_unvalidated(is_valid_pattern, confidence, count) ==
    confidence >= 50 /\ count >= min_contractions

\* detected of detect_vcp's normal path.
Detected(is_valid_pattern, confidence, count) ==
    is_valid_pattern /\ confidence >= 50 /\ count >= min_contractions

\* VCPDetector.detect_vcp(data, symbol).
VCPDetector_detect_vcp(input) ==
    LET st == input.steps
        fault == input.fault
    IN  IF ~validate_input_data(input.data)
          THEN DetectResult(FALSE, 0, <<>>, None, "insufficient_data",
                            <<<<"Insufficient or invalid data", "">>>>)
        ELSE IF Raises(fault, "_meets_basic_requirements", "_meets_basic_requirements")
          THEN ErrorResult(fault)
        ELSE IF ~meets_basic_requirements(input.data)
          THEN DetectResult(FALSE, 0, <<>>, None, "failed_basic_requirements",
                            <<<<"Failed basic price/volume requirements", "">>>>)
        ELSE IF Raises(fault, "_identify_pivot_points", "_find_contractions")
          THEN ErrorResult(fault)
        ELSE IF Len(st.contractions) < min_contractions
          THEN DetectResult(FALSE, 0, st.contractions, None,
                            "insufficient_contractions",
                            <<<<"contractions found, minimum required", "">>>>)
        ELSE IF Raises(fault, "_validate_contraction_pattern", "_generate_notes")
          THEN ErrorResult(fault)
        ELSE LET is_valid_pattern == validate_contraction_pattern(st.contractions)
                 confidence == calculate_confidence_score(
                     st.contractions, st.volume_trend, st.near_highs,
                     st.breakout_info)
                 detected == Detected(is_valid_pattern, confidence,
                                      Len(st.contractions))
             IN  DetectResult(detected, confidence, st.contractions,
                              IF st.breakout_info = None THEN None
                              ELSE [date |-> st.breakout_info.date,
                                    price |-> st.breakout_info.price],
                              st.volume_trend,
                              generate_notes(st.contractions, st.volume_trend,
                                             st.near_highs, st.breakout_info))

InitDetect ==
    /\ args \in DetectInputs
    /\ now = 0
    /\ result = None
    /\ NoLedger
    /\ NoBacktest
    /\ live = None

\* detector.detect_vcp(data, symbol).
DetectVcp ==
    /\ result = None
    /\ result' = Returned(VCPDetector_detect_vcp(args))
    /\ UNCHANGED <<args, now, ledger_vars, backtest_vars, live>>

NextDetect == DetectVcp

SpecDetect == InitDetect /\ [][NextDetect]_vars

\* C15 as stated: a result with confidence >= 0.5 and at least
\* min_contractions contractions has detected = true, and a result with
\* confidence < 0.5 has detected = false.
C15_DetectedByConfidence ==
    result # None =>
        LET r == result.value
        IN  /\ (r.confidence >= 50 /\ Len(r.contractions) >= min_contractions)
                => r.detected
            /\ r.confidence < 50 => ~r.detected

\* C15 amended: detected is true exactly when confidence >= 0.5, there
\* are at least min_contractions contractions and the pullbacks pass the
\* pattern validation; a confidence of exactly 0.5 is on the detected side.
C15_DetectedByConfidenceAndPattern ==
    result # None =>
        LET r == result.value
        IN  r.detected <=>
                /\ r.confidence >= 50
                /\ Len(r.contractions) >= min_contractions
                /\ validate_contraction_pattern(r.contractions)

\* A series scored at exactly 0.5 is reported as detected.
C15_Witness ==
    /\ result # None
    /\ result.value.confidence = 50
    /\ result.value.detected

\* C16: every result of detect_vcp, from the early exits, the normal path
\* and the error path, has a confidence from 0 to 1.
C16_ConfidenceRange ==
    result # None =>
        /\ result.value.confidence >= 0
        /\ result.value.confidence <= 100

\* The parts of the score add up to more than 1 and the result says 1.
C16_Witness ==
    /\ result # None
    /\ result.value.confidence = 100
    /\ Score(args.steps.contractions, args.steps.volume_trend,
             args.steps.near_highs, args.steps.breakout_info) > 100

\* The step named by the fault is one that detect_vcp gets to.
FaultHit ==
    /\ args.fault # None
    /\ validate_input_data(args.data)
    /\ \/ args.fault.step = "_meets_basic_requirements"
       \/ /\ meets_basic_requirements(args.data)
          /\ \/ args.fault.step \in {"_identify_pivot_points", "_find_contractions"}
             \/ Len(args.steps.contractions) >= min_contractions

\* C17: detect_vcp returns a result and raises nothing.  Missing data,
\* missing columns, fewer than 30 bars, a price or volume under the floor
\* and a fault in a step each give detected = false, confidence 0 and the
\* tag of the reason; a fault gives the tag "error" and the text of the
\* exception in the notes.
C17_NeverRaises ==
    result # None =>
        LET r == result.value
            bad_data == ~validate_input_data(args.data)
            below_floor == /\ ~bad_data
                           /\ ~FaultHit
                           /\ ~meets_basic_requirements(args.data)
        IN  /\ "raised" \notin DOMAIN r
            /\ (bad_data \/ below_floor \/ FaultHit)
                  => ~r.detected /\ r.confidence = 0
            /\ bad_data => r.volume_trend = "insufficient_data"
            /\ below_floor => r.volume_trend = "failed_basic_requirements"
            /\ FaultHit
                  => /\ r.volume_trend = "error"
                     /\ r.notes = <<<<"Error in detection: ", args.fault.text>>>>

\* The last step of the try block raises and the caller gets the error
\* result.
C17_Witness ==
    /\ result # None
    /\ args.fault # None
    /\ args.fault.step = "_generate_notes"
    /\ FaultHit
    /\ result.value.volume_trend = "error"

(***************************************************************************)
(* run_backtest with a fault: an exception raised while one symbol is      *)
(* processed on one day, at the detection, the signal, the sizing or the   *)
(* opening of _process_entries or at the exit check of _process_exits.     *)
(* The fault is raised only if the run gets to that statement.  A run      *)
(* that an exception leaves is at pc "aborted".  errors is what the        *)
(* except clauses logged.                                                  *)
(***************************************************************************)

EntryFaultSteps == {"detect_vcp", "analyze_vcp_signal", "calculate_position_size", "open_position"}

ExitFaultStep == "should_exit_position"

BacktestFaults ==
    {None} \cup {[day |-> day, symbol |-> symbol, step |-> step] :
                    day \in 1..MaxDay, symbol \in Range(BacktestSymbols),
                    step \in EntryFaultSteps \cup {ExitFaultStep}}

\* The statement `step` for `symbol` on `current_date` is where the fault is.
FaultAt(fault, symbol, current_date, step) ==
    /\ fault # None
    /\ fault.symbol = symbol
    /\ fault.day = current_date
    /\ fault.step = step

IsRaised(r) == "raised" \in DOMAIN r

\* The ledger and the errors logged so far.
Logged(pf, errors) == [pf |-> pf, errors |-> errors]

\* The statements inside the try block of _process_entries, for one symbol:
\* the ledger they leave, or the exception they raise.
ProcessEntryBody(pf, hd, symbol, current_date, t, fault) ==
    LET vcp_result == detect_vcp(hd, symbol, current_date)
        signal ==
            analyze_vcp_signal(vcp_result, symbol,
                               hd.pattern[symbol].volume_ratio,
                               hd.favorable, t)
        shares ==
            calculate_position_size(signal, get_portfolio_value(pf),
                                    hd.favorable)
    IN  IF FaultAt(fault, symbol, current_date, "detect_vcp")
          THEN Raised(fault.step)
        ELSE IF ~vcp_result.detected THEN pf
        ELSE IF vcp_result.breakout = None THEN pf
        ELSE IF Abs(current_date - vcp_result.breakout.date) > 2 THEN pf
        ELSE IF FaultAt(fault, symbol, current_date, "analyze_vcp_signal")
          THEN Raised(fault.step)
        ELSE IF signal = None THEN pf
        ELSE IF FaultAt(fault, symbol, current_date, "calculate_position_size")
          THEN Raised(fault.step)
        ELSE IF shares <= 0 THEN pf
        ELSE IF FaultAt(fault, symbol, current_date, "open_position")
          THEN Raised(fault.step)
        ELSE open_position(pf, signal, shares).pf

\* One iteration of the loop of _process_entries without its try block.
ProcessEntryNoTry(st, hd, symbol, current_date, t, fault) ==
    IF HasPosition(st.pf, symbol) THEN st
    ELSE LET r == ProcessEntryBody(st.pf, hd, symbol, current_date, t, fault)
         IN  IF IsRaised(r) THEN r ELSE Logged(r, st.errors)

\* One iteration of the loop of _process_entries, for one symbol, with its
\* try block: an exception is logged and the loop goes on.
ProcessEntryTry(st, hd, symbol, current_date, t, fault) ==
    IF HasPosition(st.pf, symbol) THEN st
    ELSE LET r == ProcessEntryBody(st.pf, hd, symbol, current_date, t, fault)
         IN  IF IsRaised(r) THEN Logged(st.pf, Append(st.errors, r.raised))
             ELSE Logged(r, st.errors)

RECURSIVE ProcessEntriesTry(_, _, _, _, _, _)
\* The loop of _process_entries; an exception that leaves an iteration
\* ends the loop.
ProcessEntriesTry(st, hd, symbols, current_date, t, fault) ==
    IF symbols = <<>> THEN st
    ELSE IF IsRaised(st) THEN st
    ELSE ProcessEntriesTry(
             ProcessEntryTry(st, hd, Head(symbols), current_date, t, fault),
             hd, Tail(symbols), current_date, t, fault)

\* backtester._process_entries with its fault.
process_entries_try(st, hd, current_date, t, fault) ==
    IF Len(st.pf.positions) >= strategy_max_positions THEN st
    ELSE ProcessEntriesTry(st, hd, BacktestSymbols, current_date, t, fault)

\* The exit checks of _process_exits with the fault: the check that raises
\* leaves its position as it was and gives no signal.
ExitChecksTry(pf, hd, current_date, t, fault) ==
    [i \in 1..Len(pf.positions) |->
        IF FaultAt(fault, pf.positions[i].symbol, current_date, ExitFaultStep)
          THEN [position |-> pf.positions[i], ret |-> None]
          ELSE should_exit_position(
                   pf.positions[i],
                   CurrentClose(hd, pf.positions[i].symbol, current_date), t)]

\* backtester._process_exits with its fault.
process_exits_try(st, hd, current_date, t, fault) ==
    LET pf == st.pf
        checks == ExitChecksTry(pf, hd, current_date, t, fault)
        checked == [pf EXCEPT !.positions =
                        [i \in 1..Len(checks) |-> checks[i].position]]
        raised == \E i \in 1..Len(pf.positions) :
                      FaultAt(fault, pf.positions[i].symbol, current_date,
                              ExitFaultStep)
    IN  Logged(CloseEach(checked, ExitsOf(checks)),
               IF raised THEN Append(st.errors, ExitFaultStep) ELSE st.errors)

\* A run of run_backtest and the errors its except clauses logged.
FaultyRun(pf, day, pc, daily_values, errors) ==
    [portfolio |-> pf, day |-> day, pc |-> pc,
     daily_values |-> daily_values, errors |-> errors]

\* A step of the day that an exception leaves ends the run.
Aborted(run) == [run EXCEPT !.pc = "aborted"]

FaultyExits(run, hd, t, fault) ==
    LET st == process_exits_try(Logged(run.portfolio, run.errors), hd,
                                run.day, t, fault)
    IN  IF IsRaised(st) THEN Aborted(run)
        ELSE FaultyRun(st.pf, run.day, "entries", run.daily_values, st.errors)

FaultyEntries(run, hd, t, fault) ==
    LET st == process_entries_try(Logged(run.portfolio, run.errors), hd,
                                  run.day, t, fault)
    IN  IF IsRaised(st) THEN Aborted(run)
        ELSE FaultyRun(st.pf, run.day, "record", run.daily_values, st.errors)

FaultyRecord(run, hd, t) ==
    LET pf == update_positions(run.portfolio,
                               get_current_prices(hd, run.day), t)
    IN  FaultyRun(pf, run.day + 1, "exits",
                  Append(run.daily_values,
                         [date |-> run.day,
                          portfolio_value |-> get_portfolio_value(pf),
                          cash |-> pf.cash,
                          num_positions |-> Len(pf.positions)]),
                  run.errors)

\* One run over historical data, started on the last day of the data,
\* with the fault as args.
InitFaults ==
    /\ data \in HistoricalData
    /\ now = MaxDay
    /\ args \in BacktestFaults
    /\ \E c \in InitialCapitals :
          bt = FaultyRun(PortfolioManager(c), 1, "exits", <<>>, <<>>)
    /\ bt2 = None
    /\ now2 = 0
    /\ result = None
    /\ NoLedger
    /\ live = None

FaultyExitsStep ==
    /\ bt.day <= MaxDay /\ bt.pc = "exits"
    /\ bt' = FaultyExits(bt, data, now, args)
    /\ UNCHANGED <<data, bt2, now, now2, ledger_vars, live, call_vars>>

FaultyEntriesStep ==
    /\ bt.day <= MaxDay /\ bt.pc = "entries"
    /\ bt' = FaultyEntries(bt, data, now, args)
    /\ UNCHANGED <<data, bt2, now, now2, ledger_vars, live, call_vars>>

FaultyRecordStep ==
    /\ bt.day <= MaxDay /\ bt.pc = "record"
    /\ bt' = FaultyRecord(bt, data, now)
    /\ UNCHANGED <<data, bt2, now, now2, ledger_vars, live, call_vars>>

NextFaults ==
    \/ FaultyExitsStep
    \/ FaultyEntriesStep
    \/ FaultyRecordStep

SpecFaults == InitFaults /\ [][NextFaults]_vars

\* The symbols of the run but the one of the fault.
OtherSymbols == SelectSeq(BacktestSymbols, LAMBDA x : x # args.symbol)

\* The positions and trades of the ledger in the other symbols.
OthersIn(pf) ==
    [positions |-> SelectSeq(pf.positions, LAMBDA p : p.symbol # args.symbol),
     closed_trades |-> SelectSeq(pf.closed_trades, LAMBDA c : c.symbol # args.symbol)]

\* C18: a fault at the detection, signal, sizing or opening of one symbol
\* or at its exit check does not end the run: the step of the day ends
\* having processed the other symbols as it does without the faulty one,
\* every day that has passed has its snapshot, and the run goes on to the
\* next day.
C18_FaultKeepsRun ==
    /\ [](/\ bt.pc # "aborted"
          /\ Len(bt.daily_values) = bt.day - 1
          /\ \A d \in 1..Len(bt.daily_values) : bt.daily_values[d].date = d)
    /\ [][/\ (bt.pc = "entries" /\ args # None /\ args.day = bt.day
                                /\ args.step \in EntryFaultSteps
                                /\ bt'.errors # bt.errors)
              => /\ bt'.pc = "record"
                 /\ bt'.portfolio =
                        IF Len(bt.portfolio.positions) >= strategy_max_positions
                          THEN bt.portfolio
                          ELSE ProcessEntries(bt.portfolio, data, OtherSymbols,
                                              bt.day, now)
          /\ (bt.pc = "exits" /\ args # None /\ args.day = bt.day
                              /\ args.step = ExitFaultStep
                              /\ bt'.errors # bt.errors)
              => /\ bt'.pc = "entries"
                 /\ OthersIn(bt'.portfolio) =
                        OthersIn(process_exits(bt.portfolio, data, bt.day, now))
                 /\ HasPosition(bt'.portfolio, args.symbol)]_vars

\* An exception was raised and logged on some day, and the run has
\* recorded every day.
C18_Witness ==
    /\ bt # None
    /\ "errors" \in DOMAIN bt
    /\ Len(bt.errors) > 0
    /\ bt.day = MaxDay + 1
    /\ Len(bt.daily_values) = MaxDay

(***************************************************************************)
(* run_backtest when no symbol has usable data: _fetch_historical_data     *)
(* gives an empty dict, so no day opens or closes anything and every       *)
(* snapshot records the cash the ledger started with.  A fetched series is *)
(* its number of rows and of rows inside the backtest period; the          *)
(* benchmark is the number of its return dates that are trading days of    *)
(* the run and whether its returns vary, None for the empty frame.  The    *)
(* outcome is the results or the exception, with the number of daily       *)
(* iterations made.  Returns are fractions.                                *)
(***************************************************************************)

\* The samples _calculate_sharpe_ratio asks for, and the aligned points the
\* alpha and beta are computed above.
MinSharpeSamples == 30
MinAlignedPoints == 10

\* The risk-free rate 0.02.
RiskFree == <<1, 50>>

Fetched == {None} \cup {[rows |-> rows, in_period |-> in_period] :
                          rows \in {100, 120}, in_period \in {50, 60}}

\* The test of _fetch_historical_data on one fetched series.
Usable(fetched) ==
    fetched # None /\ fetched.rows > 100 /\ fetched.in_period > 50

fetch_historical_data(symbols, fetched) ==
    {symbol \in Range(symbols) : Usable(fetched[symbol])}

\* Business days from start_date to end_date.
TradingDayCounts == {0, 1, MinAlignedPoints + 2, MinSharpeSamples + 1}

Benchmarks ==
    {None} \cup {[matching |-> matching, varies |-> varies] :
                    matching \in {MinAlignedPoints, MinAlignedPoints + 1},
                    varies \in BOOLEAN}

\* Zero, negative and positive initial capitals.
RunCapitals == {0, -200000} \cup InitialCapitals

\* Calls of run_backtest: the symbols asked for and what the fetcher has
\* for each symbol.
BacktestCalls ==
    {[symbols |-> symbols, fetched |-> fetched, days |-> days,
      initial_capital |-> initial_capital, benchmark |-> benchmark] :
        symbols \in {<<>>, <<"AAA">>, <<"AAA", "BBB">>},
        fetched \in [Range(BacktestSymbols) -> Fetched],
        days \in TradingDayCounts, initial_capital \in RunCapitals,
        benchmark \in Benchmarks}

\* daily_values of a run whose ledger never trades.
FlatDailyValues(pf, days) ==
    [d \in 1..days |-> [date |-> d, portfolio_value |-> get_portfolio_value(pf),
                        cash |-> pf.cash, num_positions |-> Len(pf.positions)]]

BacktestResults(total_return, annual_return, sharpe_ratio, max_drawdown, volatility, num_trades, alpha, beta, final_value, symbols_tested) ==
    [total_return |-> total_return, annual_return |-> annual_return,
     sharpe_ratio |-> sharpe_ratio, max_drawdown |-> max_drawdown,
     volatility |-> volatility, num_trades |-> num_trades,
     alpha |-> alpha, beta |-> beta, final_value |-> final_value,
     symbols_tested |-> symbols_tested]

\* _calculate_results on the daily values of a ledger that never traded:
\* every return is 0, so the total and the annual return, the volatility,
\* the drawdown, the standard deviation of the excess returns (hence the
\* Sharpe ratio) and the covariance with the benchmark (hence beta) are 0.
\* The first division, by initial_value, raises when that is 0.
calculate_results(pf, daily_values, benchmark, symbols_tested) ==
    LET initial_value == pf.initial_capital
        final_value ==
            IF daily_values # <<>>
              THEN daily_values[Len(daily_values)].portfolio_value
              ELSE initial_value
        returns == IF Len(daily_values) > 0 THEN Len(daily_values) - 1 ELSE 0
        annual_return == Zero
        aligned ==
            IF benchmark = None THEN 0 ELSE Min(benchmark.matching, returns)
        beta == Zero
        alpha ==
            IF /\ benchmark # None
               /\ returns > 0
               /\ aligned > MinAlignedPoints
               /\ benchmark.varies
              THEN <<annual_return[1] * RiskFree[2] - RiskFree[1], RiskFree[2]>>
              ELSE Zero
    IN  IF initial_value = 0 THEN Raised("ZeroDivisionError")
        ELSE BacktestResults(Zero, annual_return, Zero, Zero, Zero,
                             Len(pf.closed_trades), alpha, beta, final_value,
                             symbols_tested)

\* How a call ended: with results or an exception, after so many daily
\* iterations.
Outcome(value, iterations) == [value |-> value, iterations |-> iterations]

\* run_backtest(symbols, start_date, end_date, initial_capital) when
\* _fetch_historical_data gives no symbol.
run_backtest(call) ==
    LET pf == PortfolioManager(call.initial_capital)
        historical_data == fetch_historical_data(call.symbols, call.fetched)
        daily_values == FlatDailyValues(pf, call.days)
    IN  Outcome(calculate_results(pf, daily_values, call.benchmark,
                                  Len(call.symbols)),
                Len(daily_values))

InitNoData ==
    /\ args \in {call \in BacktestCalls :
                    fetch_historical_data(call.symbols, call.fetched) = {}}
    /\ now = 0
    /\ result = None
    /\ NoLedger
    /\ NoBacktest
    /\ live = None

\* backtester.run_backtest(symbols, start_date, end_date, initial_capital).
RunBacktest ==
    /\ result = None
    /\ result' = run_backtest(args)
    /\ UNCHANGED <<args, now, ledger_vars, backtest_vars, live>>

NextNoData == RunBacktest

SpecNoData == InitNoData /\ [][NextNoData]_vars

\* C19: run_backtest with no symbols, or with no symbol that has usable
\* data, and a positive initial capital raises nothing and returns zero
\* trades, zero symbols tested, total and annual return, volatility,
\* drawdown, Sharpe ratio, alpha and beta all 0, and final value equal to
\* the initial capital.
C19_AllZeroResult ==
    (result # None /\ args.initial_capital > 0) =>
        LET r == result.value
        IN  /\ ~IsRaised(r)
            /\ r.num_trades = 0
            /\ r.symbols_tested = 0
            /\ r.total_return = Zero
            /\ r.annual_return = Zero
            /\ r.volatility = Zero
            /\ r.max_drawdown = Zero
            /\ r.sharpe_ratio = Zero
            /\ r.alpha = Zero
            /\ r.beta = Zero
            /\ r.final_value = args.initial_capital

\* C20: run_backtest with an initial capital that is zero or negative
\* raises before its first daily iteration.
C20_IllegalCapitalRaises ==
    (result # None /\ args.initial_capital <= 0) =>
        /\ IsRaised(result.value)
        /\ result.iterations = 0

----------------------------------------------------------------------------
(* Claims about the daily loop of run_backtest (SpecBacktest).             *)

\* C21: run_backtest records one snapshot per trading day, in the order of
\* the days, each after the exits, the entries and the valuation of its
\* day; the snapshot has the cash and the number of positions of the
\* ledger, and its value is the cash plus shares times the day's close
\* over the open positions.
C21_DailySnapshots ==
    /\ [](/\ Len(bt.daily_values) = bt.day - 1
          /\ \A d \in 1..Len(bt.daily_values) : bt.daily_values[d].date = d)
    /\ [][/\ bt.pc = "exits" => bt'.pc = "entries" /\ bt'.daily_values = bt.daily_values
          /\ bt.pc = "entries" => bt'.pc = "record" /\ bt'.daily_values = bt.daily_values
          /\ bt.pc = "record" =>
               LET pf == bt'.portfolio
                   snapshot == bt'.daily_values[Len(bt'.daily_values)]
               IN  /\ bt'.pc = "exits"
                   /\ bt'.day = bt.day + 1
                   /\ bt'.daily_values = Append(bt.daily_values, snapshot)
                   /\ snapshot.date = bt.day
                   /\ snapshot.cash = pf.cash
                   /\ pf.cash = bt.portfolio.cash
                   /\ snapshot.num_positions = Len(pf.positions)
                   /\ Len(pf.positions) = Len(bt.portfolio.positions)
                   /\ snapshot.portfolio_value =
                          pf.cash + SumSeq([i \in 1..Len(pf.positions) |->
                              pf.positions[i].shares
                                * CurrentClose(data, pf.positions[i].symbol, bt.day)])]_vars

\* Every day has its snapshot, and the last one values an open position
\* at a close that is not its entry price.
C21_Witness ==
    /\ bt # None
    /\ "closed_today" \in DOMAIN bt
    /\ bt.day = MaxDay + 1
    /\ Len(bt.daily_values) = MaxDay
    /\ bt.daily_values[MaxDay].num_positions > 0
    /\ \E i \in 1..Len(bt.portfolio.positions) :
           bt.portfolio.positions[i].current_price
               # bt.portfolio.positions[i].entry_price

(***************************************************************************)
(* run_backtest and its caller, main of run_backtest.py, with an           *)
(* interrupt between two daily iterations.  daily_values is a local of     *)
(* run_backtest; result is what the caller holds once the call has ended:  *)
(* the results it returned, or the exception that left it.                 *)
(***************************************************************************)

\* The results of a run that got to its end, as far as the snapshots and
\* the trades go.
Report(run) ==
    [portfolio_history |-> run.daily_values,
     trade_history |-> run.portfolio.closed_trades,
     num_trades |-> Len(run.portfolio.closed_trades)]

InitAbort ==
    /\ InitFaults
    /\ args = None

\* KeyboardInterrupt between two iterations of the daily loop: it leaves
\* run_backtest and main catches it.
Interrupt ==
    /\ result = None
    /\ bt.pc = "exits"
    /\ bt.day > 1 /\ bt.day <= MaxDay
    /\ bt' = Aborted(bt)
    /\ result' = Raised("KeyboardInterrupt")
    /\ UNCHANGED <<args, data, bt2, now, now2, ledger_vars, live>>

\* The loop is over and run_backtest returns its results.
ReturnResults ==
    /\ result = None
    /\ bt.pc = "exits"
    /\ bt.day = MaxDay + 1
    /\ result' = Report(bt)
    /\ UNCHANGED <<args, data, bt, bt2, now, now2, ledger_vars, live>>

NextAbort ==
    \/ FaultyExitsStep
    \/ FaultyEntriesStep
    \/ FaultyRecordStep
    \/ Interrupt
    \/ ReturnResults

SpecAbort == InitAbort /\ [][NextAbort]_vars

\* C22: when a run is aborted between two daily iterations, the caller
\* has the snapshots of the days already processed.
C22_SnapshotsSurviveAbort ==
    (bt.pc = "aborted") =>
        /\ "portfolio_history" \in DOMAIN result
        /\ result.portfolio_history = bt.daily_values
        /\ Len(result.portfolio_history) = bt.day - 1

(***************************************************************************)
(* The two Sharpe computations as functions of the daily returns.  A       *)
(* return is a multiple of 1/12600, the daily risk-free rate 0.02 / 252,   *)
(* so that the excess return of k is k - 1.  numpy computes a standard     *)
(* deviation around the floating-point mean of the samples: for samples    *)
(* that are all the same non-zero number that mean is the number itself    *)
(* only when their sum is exact, and otherwise the deviation is a tiny     *)
(* positive number.  sums_exact says which of the two the samples give.    *)
(* A Sharpe ratio that is not 0 is kept as the mean it divides and the     *)
(* deviation it divides by.                                                *)
(***************************************************************************)

\* Returns of 0, of the risk-free rate, of 1% and of -1%.
DailyReturns == {0, 1, 126, -126}

SampleCounts == {0, 1, MinSharpeSamples - 1, MinSharpeSamples, MinSharpeSamples + 1}

\* Series of one return, and series that alternate between two.
ReturnSeries ==
    {[i \in 1..n |-> IF i % 2 = 0 THEN v ELSE w] :
        n \in SampleCounts, v \in DailyReturns, w \in DailyReturns}

AllEqual(samples) == \A i \in 1..Len(samples) : samples[i] = samples[1]

\* np.std(samples) == 0.
StdIsZero(samples, sums_exact) ==
    AllEqual(samples) /\ (samples[1] = 0 \/ sums_exact)

\* The return value 0.0.
SharpeZero == [mean |-> Zero, std |-> "unused"]

\* sqrt(252) * mean / std for a std that is not 0.
Quotient(samples, deviation_of, sums_exact) ==
    [mean |-> Ratio(SumSeq(samples), Len(samples)),
     std |-> IF AllEqual(deviation_of) THEN "rounding" ELSE "positive"]

Excess(daily_returns) == [i \in 1..Len(daily_returns) |-> daily_returns[i] - 1]

\* VCPBacktester._calculate_sharpe_ratio(daily_returns).
backtester_calculate_sharpe_ratio(daily_returns, sums_exact) ==
    IF Len(daily_returns) < MinSharpeSamples THEN SharpeZero
    ELSE IF StdIsZero(Excess(daily_returns), sums_exact) THEN SharpeZero
    ELSE Quotient(Excess(daily_returns), Excess(daily_returns), sums_exact)

\* PortfolioManager._calculate_sharpe_ratio() on self.daily_returns.
portfolio_calculate_sharpe_ratio(daily_returns, sums_exact) ==
    IF Len(daily_returns) < MinSharpeSamples THEN SharpeZero
    ELSE IF StdIsZero(daily_returns, sums_exact) THEN SharpeZero
    ELSE Quotient(Excess(daily_returns), daily_returns, sums_exact)

InitSharpe ==
    /\ args \in {[daily_returns |-> daily_returns, sums_exact |-> sums_exact] :
                    daily_returns \in ReturnSeries, sums_exact \in BOOLEAN}
    /\ now = 0
    /\ result = None
    /\ NoLedger
    /\ NoBacktest
    /\ live = None

\* Both computations on the same returns.
CalculateSharpeRatio ==
    /\ result = None
    /\ result' =
          [backtest |-> backtester_calculate_sharpe_ratio(
                            args.daily_returns, args.sums_exact),
           ledger |-> portfolio_calculate_sharpe_ratio(
                          args.daily_returns, args.sums_exact)]
    /\ UNCHANGED <<args, now, ledger_vars, backtest_vars, live>>

NextSharpe == CalculateSharpeRatio

SpecSharpe == InitSharpe /\ [][NextSharpe]_vars

\* C23: both Sharpe computations return exactly 0 for fewer than 30 daily
\* returns, and for returns whose standard deviation is 0.
C23_SharpeZero ==
    (/\ result # None
     /\ \/ Len(args.daily_returns) < MinSharpeSamples
        \/ AllEqual(args.daily_returns))
        => result.backtest = SharpeZero /\ result.ledger = SharpeZero

(***************************************************************************)
(* The two max-drawdown computations as functions of the value series.     *)
(* Values are positive amounts; a drawdown is a reduced fraction.          *)
(***************************************************************************)

\* Longest value series.
MaxValues == 3

SeriesValues == {60, 90, 100, 120}

ValueSeries == UNION {[1..n -> SeriesValues] : n \in 0..MaxValues}

\* a <= b for fractions with positive denominators.
Leq(a, b) == a[1] * b[2] <= b[1] * a[2]

MaxRatio(a, b) == IF Leq(a, b) THEN b ELSE a

RECURSIVE DrawdownLoopFirstPeak(_, _, _)
\* The loop with the peak left at the first value.
DrawdownLoopFirstPeak(values, peak, max_dd) ==
    IF values = <<>> THEN max_dd
    ELSE DrawdownLoopFirstPeak(Tail(values), peak,
             MaxRatio(max_dd, Ratio(peak - Head(values), peak)))

RECURSIVE DrawdownLoop(_, _, _)
\* The loop "for value in portfolio_values" of _calculate_max_drawdown.
DrawdownLoop(values, peak, max_dd) ==
    IF values = <<>> THEN max_dd
    ELSE LET value == Head(values)
             new_peak == IF value > peak THEN value ELSE peak
         IN  DrawdownLoop(Tail(values), new_peak,
                 MaxRatio(max_dd, Ratio(new_peak - value, new_peak)))

\* VCPBacktester._calculate_max_drawdown(portfolio_values).
backtester_calculate_max_drawdown(portfolio_values) ==
    IF portfolio_values = <<>> THEN Zero
    ELSE DrawdownLoop(portfolio_values, portfolio_values[1], Zero)

\* PortfolioManager._calculate_max_drawdown() on self.portfolio_history.
portfolio_calculate_max_drawdown(portfolio_history) ==
    IF portfolio_history = <<>> THEN Zero
    ELSE LET values == [i \in 1..Len(portfolio_history) |->
                           portfolio_history[i].portfolio_value]
         IN  DrawdownLoop(values, values[1], Zero)

InitDrawdown ==
    /\ args \in ValueSeries
    /\ now = 0
    /\ result = None
    /\ NoLedger
    /\ NoBacktest
    /\ live = None

\* Both computations on the same values.
CalculateMaxDrawdown ==
    /\ result = None
    /\ result' =
          [backtest |-> backtester_calculate_max_drawdown(args),
           ledger |-> portfolio_calculate_max_drawdown(
                          [i \in 1..Len(args) |-> [portfolio_value |-> args[i]]])]
    /\ UNCHANGED <<args, now, ledger_vars, backtest_vars, live>>

NextDrawdown == CalculateMaxDrawdown

SpecDrawdown == InitDrawdown /\ [][NextDrawdown]_vars

\* The greatest of the first i values.
RunningPeak(i) == CHOOSE p \in {args[j] : j \in 1..i} : \A j \in 1..i : args[j] <= p

\* The drawdown at the i-th value.
DrawdownAt(i) == Ratio(RunningPeak(i) - args[i], RunningPeak(i))

\* C24: the max drawdown of a series of positive values is the greatest
\* of (running peak - value) / running peak over its elements: 0 for the
\* empty series and for a series that never falls, 0.25 for
\* [100, 120, 90], and always from 0 to 1.
C24_MaxDrawdown ==
    result # None =>
        /\ result.ledger = result.backtest
        /\ Len(args) = 0 => result.backtest = Zero
        /\ Len(args) > 0 =>
             /\ \E i \in 1..Len(args) : result.backtest = DrawdownAt(i)
             /\ \A i \in 1..Len(args) : Leq(DrawdownAt(i), result.backtest)
        /\ (\A i \in 2..Len(args) : args[i - 1] <= args[i])
              => result.backtest = Zero
        /\ args = <<100, 120, 90>> => result.backtest = <<1, 4>>
        /\ Leq(Zero, result.backtest) /\ Leq(result.backtest, <<1, 1>>)

\* The series [100, 120, 90] has a drawdown of 0.25.
C24_Witness ==
    /\ result # None
    /\ args = <<100, 120, 90>>
    /\ result.backtest = <<1, 4>>
    /\ result.ledger = <<1, 4>>

(***************************************************************************)
(* run_backtest with a strategy_config that sets max_holding_days: the     *)
(* two runs of SpecBacktest, with the configuration as args.               *)
(***************************************************************************)

\* A holding limit of two days, and the default.
HoldingLimits == {MaxDay - 1, max_holding_days}

InitConfigured ==
    /\ data \in HistoricalData
    /\ now \in BacktestNows
    /\ now2 \in BacktestNows
    /\ \E c \in InitialCapitals :
          /\ bt = Run(PortfolioManager(c), 1, "exits", <<>>, {})
          /\ bt2 = Run(PortfolioManager(c), 1, "exits", <<>>, {})
    /\ args \in {[max_holding_days |-> days] : days \in HoldingLimits}
    /\ result = None
    /\ NoLedger
    /\ live = None

SpecConfigured == InitConfigured /\ [][NextBacktest]_vars

\* The trades the step closes.
ClosedByStep ==
    {bt'.portfolio.closed_trades[i] :
        i \in (Len(bt.portfolio.closed_trades) + 1)..Len(bt'.portfolio.closed_trades)}

\* C25: the time stop closes a position only when the days from its entry
\* date to the simulated day exceed max_holding_days; until then a
\* position whose stop and target are not hit stays open.
C25_TimeStopOnSimulatedDays ==
    [][\A trade \in ClosedByStep :
          trade.exit_reason = "Time stop (max holding period)"
              => bt.day - trade.entry_date > config_max_holding_days]_vars

----------------------------------------------------------------------------
(* Claims about the entry step of a simulated day (SpecBacktest).          *)

\* The ledger as _process_entries finds it when it reaches the k-th symbol.
LedgerAt(k) ==
    ProcessEntries(bt.portfolio, data, SubSeq(BacktestSymbols, 1, k - 1),
                   bt.day, now)

\* The entry rules of the k-th symbol hold on the simulated day, the age
\* of the breakout being counted from that day.
EntryRulesHoldOn(k) ==
    LET symbol == BacktestSymbols[k]
        pf == LedgerAt(k)
        vcp_result == detect_vcp(data, symbol, bt.day)
        signal == analyze_vcp_signal(vcp_result, symbol,
                                     data.pattern[symbol].volume_ratio,
                                     data.favorable, bt.day)
        shares == calculate_position_size(signal, get_portfolio_value(pf),
                                          data.favorable)
    IN  /\ ~HasPosition(pf, symbol)
        /\ vcp_result.detected
        /\ vcp_result.breakout # None
        /\ Abs(bt.day - vcp_result.breakout.date) <= 2
        /\ signal # None
        /\ shares > 0
        /\ can_open_position(pf, signal, shares).ok

\* C26, as claimed: on every simulated day, a symbol without a position
\* whose pattern is detected with a breakout within 2 days of the day, and
\* for which the confidence, age, volume and market rules hold with the age
\* counted from the simulated day, sizing gives shares and can_open_position
\* accepts, is held after the entry step of that day.
C26_EntryOnSimulatedDay ==
    [][(bt.pc = "entries" /\ bt'.pc = "record")
         => \A k \in 1..Len(BacktestSymbols) :
               EntryRulesHoldOn(k)
                 => HasPosition(bt'.portfolio, BacktestSymbols[k])]_vars

----------------------------------------------------------------------------
(* The market check of a backtest (SpecLookAhead).  _is_market_favorable   *)
(* fetches the SPY bars of the 12 weeks that end at the wall clock, on     *)
(* every call, whatever the simulated day.  Two runs over the same symbol  *)
(* bars are followed; their SPY fetches agree on every bar dated up to the *)
(* last simulated day.  Returns are kept in basis points, rounded toward   *)
(* zero; the inputs keep the volatility far from the threshold.            *)

market_trend_window == 50
high_vix_threshold == 25
weeks == 12
VolatilityWindow == 20

\* The business days of the weeks fetched.
FetchedBars == weeks * 5

\* The backtest is run two days after its last simulated day.
LookAheadNow == MaxDay + 2

\* The date of the i-th bar of a fetch made at wall-clock time t.
BarDate(i, t) == t - FetchedBars + i

SpyCloses == {9990, 10010}

\* The fetches of SPY made at LookAheadNow: flat up to the last simulated
\* day, any of SpyCloses after it.
SpyFetches ==
    {[i \in 1..FetchedBars |->
        IF BarDate(i, LookAheadNow) <= MaxDay THEN 10000
        ELSE later[BarDate(i, LookAheadNow)]] :
        later \in [(MaxDay + 1)..LookAheadNow -> SpyCloses]}

\* spy_data['close'].tail(n)
Tail_n(seq, n) ==
    IF Len(seq) <= n THEN seq ELSE SubSeq(seq, Len(seq) - n + 1, Len(seq))

\* current_price > spy_data['close'].tail(ma_window).mean()
is_uptrend(spy) ==
    LET recent == Tail_n(spy, market_trend_window)
    IN  spy[Len(spy)] * Len(recent) > SumSeq(recent)

\* spy_data['close'].pct_change().tail(20), in basis points.
SpyReturns(spy) ==
    LET first == Len(spy) - VolatilityWindow + 1
    IN  [k \in 1..VolatilityWindow |->
            int((spy[first + k - 1] - spy[first + k - 2]) * 10000,
                spy[first + k - 2])]

\* returns.std() * sqrt(252) * 100 < high_vix_threshold, squared: with
\* n = 20 returns in basis points, n (n - 1) var = n * sum of squares -
\* (sum)^2, and both sides are divided by 4 * 10^4.
is_low_vol(spy) ==
    LET returns == SpyReturns(spy)
        n == VolatilityWindow
        squares == [k \in 1..n |-> returns[k] * returns[k]]
    IN  (n * SumSeq(squares) - SumSeq(returns) * SumSeq(returns)) * 63
            < high_vix_threshold * high_vix_threshold * 2500 * n * (n - 1)

\* strategy._is_market_favorable, given the SPY bars the fetch returns.
is_market_favorable(spy) ==
    IF spy = None \/ Len(spy) < market_trend_window THEN TRUE
    ELSE is_uptrend(spy) /\ is_low_vol(spy)

\* The historical data of a run together with the answer of its market
\* check.
WithMarket(hd, spy) == [hd EXCEPT !.favorable = is_market_favorable(spy)]

InitLookAhead ==
    /\ data \in {hd \in HistoricalData : hd.favorable}
    /\ now = LookAheadNow
    /\ now2 = LookAheadNow
    /\ args \in {[spy |-> spy, spy2 |-> spy2] :
                    spy \in SpyFetches, spy2 \in SpyFetches}
    /\ result = None
    /\ \E c \in InitialCapitals :
          /\ bt = Run(PortfolioManager(c), 1, "exits", <<>>, {})
          /\ bt2 = Run(PortfolioManager(c), 1, "exits", <<>>, {})
    /\ NoLedger
    /\ live = None

LookAheadExits ==
    /\ bt.day <= MaxDay /\ bt.pc = "exits"
    /\ bt' = RunExits(bt, WithMarket(data, args.spy), now)
    /\ bt2' = RunExits(bt2, WithMarket(data, args.spy2), now2)
    /\ UNCHANGED <<data, now, now2, ledger_vars, live, call_vars>>

LookAheadEntries ==
    /\ bt.day <= MaxDay /\ bt.pc = "entries"
    /\ bt' = RunEntries(bt, WithMarket(data, args.spy), now)
    /\ bt2' = RunEntries(bt2, WithMarket(data, args.spy2), now2)
    /\ UNCHANGED <<data, now, now2, ledger_vars, live, call_vars>>

LookAheadRecord ==
    /\ bt.day <= MaxDay /\ bt.pc = "record"
    /\ bt' = RunRecord(bt, WithMarket(data, args.spy), now)
    /\ bt2' = RunRecord(bt2, WithMarket(data, args.spy2), now2)
    /\ UNCHANGED <<data, now, now2, ledger_vars, live, call_vars>>

NextLookAhead ==
    \/ LookAheadExits
    \/ LookAheadEntries
    \/ LookAheadRecord

SpecLookAhead == InitLookAhead /\ [][NextLookAhead]_vars

\* The two fetches agree on every bar dated up to day t.
SameBarsUpTo(t) ==
    \A i \in 1..FetchedBars :
        BarDate(i, now) <= t => args.spy[i] = args.spy2[i]

\* C27, as claimed: no bar dated after a simulated day influences the
\* decisions or the snapshot of that day: two runs whose bars agree up to
\* the last simulated day hold the same positions, have closed the same
\* trades and have recorded the same snapshots.
C27_NoLookAhead ==
    SameBarsUpTo(MaxDay) =>
        /\ bt.portfolio.positions = bt2.portfolio.positions
        /\ bt.portfolio.closed_trades = bt2.portfolio.closed_trades
        /\ bt.daily_values = bt2.daily_values

----------------------------------------------------------------------------
(* Claims about the trailing stop of should_exit_position (SpecExit).      *)

TrailingEntries == {33333, 50000, 100000}

\* C28: with trailing_stop_percent > 0 and a positive entry price,
\* should_exit_position never returns a trailing-stop signal, whatever the
\* prices it has been called with before: every signal it returns has the
\* reason stop loss, profit target or time stop, and the trailing floor of
\* a price is strictly below that price.
C28_NoTrailingStop ==
    /\ trailing_stop_percent > 0
    /\ (last.op = "exit_check" /\ last.ok) =>
          last.reason \in {"Stop loss triggered", "Profit target reached",
                           "Time stop (max holding period)"}
    /\ \A price \in ExitPrices, entry \in TrailingEntries :
          LET position == [portfolio.positions[1] EXCEPT !.entry_price = entry]
              ret == should_exit_position(position, price, now).ret
          IN  /\ ret # None => ret.reason # "Trailing stop"
              /\ entry * (1000 - trailing_stop_percent) + (price - entry) * 1000
                    < price * 1000

\* A check of a position whose gain has reached the trailing trigger, after
\* a check at a higher price, has returned no signal.
C28_Witness ==
    /\ last.op = "exit_check"
    /\ ~last.ok
    /\ portfolio.positions[1].current_price = 110000
    /\ (portfolio.positions[1].current_price
          - portfolio.positions[1].entry_price) * 1000
          >= trailing_stop_trigger * portfolio.positions[1].entry_price

----------------------------------------------------------------------------
(* Claims about the cash of the ledger (Spec).                             *)

\* get_portfolio_stats: the fields of PortfolioStats that are sums and
\* counts over the ledger, and its two risk metrics.  (The flag of the
\* Sharpe computation is not read below MinSharpeSamples returns.)
get_portfolio_stats(pf) ==
    [total_value |-> get_portfolio_value(pf),
     cash |-> pf.cash,
     realized_pnl |-> SumSeq([i \in 1..Len(pf.closed_trades) |->
                                pf.closed_trades[i].pnl_dollars]),
     num_positions |-> Len(pf.positions),
     num_trades |-> Len(pf.closed_trades),
     max_drawdown |-> portfolio_calculate_max_drawdown(pf.portfolio_history),
     sharpe_ratio |-> portfolio_calculate_sharpe_ratio(pf.daily_returns, TRUE)]

\* cash + sum over open positions of (shares x entry_price + commission).
CashAndCost(pf) ==
    pf.cash + SumSeq([i \in 1..Len(pf.positions) |->
                        pf.positions[i].shares * pf.positions[i].entry_price
                          + commission])

\* initial_capital + sum of pnl_dollars over closed_trades.
CapitalAndRealized(pf) ==
    pf.initial_capital
        + SumSeq([i \in 1..Len(pf.closed_trades) |->
                    pf.closed_trades[i].pnl_dollars])

\* A successful open lowers cash by shares x signal price x (1 + slippage)
\* + commission (multiplied through by 1000).
OpenLowersCash ==
    (last'.op = "open" /\ last'.ok) =>
        LET position == portfolio'.positions[Len(portfolio'.positions)]
        IN  (portfolio.cash - portfolio'.cash - commission) * 1000
              = position.shares * SignalPrice(position.symbol)
                  * (1000 + slippage)

\* C29: after any sequence of successful opens and closes, cash + sum over
\* open positions of (shares x entry_price + commission) = initial_capital
\* + sum of pnl_dollars over closed_trades; each open lowers cash by
\* shares x signal price x (1 + slippage) + commission; and with no open
\* positions the stats report total_value - initial_capital = realized P&L
\* and num_trades = the number of closed trades.
C29_CashIdentity ==
    /\ [](CashAndCost(portfolio) = CapitalAndRealized(portfolio))
    /\ [][OpenLowersCash]_vars
    /\ [](portfolio.positions = <<>> =>
            LET stats == get_portfolio_stats(portfolio)
            IN  /\ stats.total_value - portfolio.initial_capital
                      = stats.realized_pnl
                /\ stats.num_trades = Len(portfolio.closed_trades))

\* A position has been opened and closed at another price: no position is
\* open and the realized P&L is not zero.
C29_Witness ==
    /\ last.op = "close" /\ last.ok
    /\ portfolio.positions = <<>>
    /\ Len(portfolio.closed_trades) = 1
    /\ portfolio.closed_trades[1].pnl_dollars # 0
    /\ portfolio.cash # portfolio.initial_capital

----------------------------------------------------------------------------
(* Claims about the order of the steps of a simulated day (SpecBacktest).  *)

\* The symbols the step opens a position in.
OpenedByStep == OpenSymbols(bt'.portfolio) \ OpenSymbols(bt.portfolio)

\* The snapshot recorded for day t.
SnapshotOf(run, t) == run.daily_values[t]

\* C30: in a backtest no position is both opened and closed on the same
\* simulated day.  Only the exit step of a day closes positions, and those
\* it closes were held before that day's entry step (from the second day
\* on, in the snapshot of the day before); the entry step closes nothing,
\* and the positions it opens are all held when the day is recorded and
\* counted by the day's snapshot.
C30_NoSameDayRoundTrip ==
    [][/\ bt'.portfolio.closed_trades # bt.portfolio.closed_trades =>
            /\ bt.pc = "exits"
            /\ bt.day > 1
            /\ Len(bt.portfolio.positions)
                  = SnapshotOf(bt, bt.day - 1).num_positions
            /\ \A i \in (Len(bt.portfolio.closed_trades) + 1)
                            ..Len(bt'.portfolio.closed_trades) :
                  bt'.portfolio.closed_trades[i].symbol
                      \in OpenSymbols(bt.portfolio)
       /\ bt.pc = "entries" =>
            /\ OpenSymbols(bt.portfolio) \subseteq OpenSymbols(bt'.portfolio)
            /\ bt'.day = bt.day /\ bt'.pc = "record"
       /\ bt.pc = "record" =>
            /\ OpenSymbols(bt'.portfolio) = OpenSymbols(bt.portfolio)
            /\ SnapshotOf(bt', bt.day).date = bt.day
            /\ SnapshotOf(bt', bt.day).num_positions
                  = Len(bt.portfolio.positions)
            /\ bt'.day = bt.day + 1 /\ bt'.pc = "exits"]_vars

\* A position opened in the entry step of the first day was counted by the
\* snapshot of that day and has been closed by the exit step of a later
\* day.
C30_Witness ==
    /\ bt.pc = "entries"
    /\ bt.day > 1
    /\ SnapshotOf(bt, 1).num_positions = 1
    /\ Len(bt.portfolio.closed_trades) = 1
    /\ bt.portfolio.positions = <<>>

----------------------------------------------------------------------------
(* Further claims about detect_vcp (SpecDetect).                           *)

\* The call gets to the verdict: the data are valid and pass the basic
\* requirements, there are enough contractions and no step raises.
NormalPath ==
    /\ validate_input_data(args.data)
    /\ meets_basic_requirements(args.data)
    /\ Len(args.steps.contractions) >= min_contractions
    /\ ~FaultHit

\* C31: on the normal detection path detected is true if and only if the
\* pattern validation passed, the confidence is at least 0.5 and there are
\* at least min_contractions contractions; on every early exit and on the
\* error path detected is false.
C31_DetectedOnNormalPath ==
    result # None =>
        /\ NormalPath =>
              (result.value.detected <=>
                  /\ validate_contraction_pattern(args.steps.contractions)
                  /\ result.value.confidence >= 50
                  /\ Len(args.steps.contractions) >= min_contractions)
        /\ ~NormalPath => ~result.value.detected

\* On the normal path a series with enough contractions and a confidence
\* above 0.5 fails the validation and is not detected.
C31_Witness ==
    /\ result # None
    /\ NormalPath
    /\ result.value.confidence >= 50
    /\ ~validate_contraction_pattern(args.steps.contractions)
    /\ ~result.value.detected

\* C33, as claimed: every result of detect_vcp, on every path, carries a
\* volume-trend tag from decreasing, stable, increasing, insufficient_data
\* and error.
C33_VolumeTrendTags ==
    result # None =>
        result.value.volume_trend
            \in {"decreasing", "stable", "increasing", "insufficient_data",
                 "error"}

----------------------------------------------------------------------------
(* _validate_contraction_pattern as a function of the contraction list     *)
(* (SpecValidate): every list of up to MaxContractions pullbacks.          *)

MaxContractions == 6

ValidateInputs == UNION {[1..n -> Pullbacks] : n \in 0..MaxContractions}

InitValidate ==
    /\ args \in ValidateInputs
    /\ now = 0
    /\ result = None
    /\ NoLedger
    /\ NoBacktest
    /\ live = None

\* detector._validate_contraction_pattern(contractions).
ValidateContractionPattern ==
    /\ result = None
    /\ result' = Returned(validate_contraction_pattern(args))
    /\ UNCHANGED <<args, now, ledger_vars, backtest_vars, live>>

NextValidate == ValidateContractionPattern

SpecValidate == InitValidate /\ [][NextValidate]_vars

\* The consecutive pairs whose later pullback is within 1.2 times the
\* earlier one.
ToleratedPairs(contractions) ==
    {i \in 2..Len(contractions) :
        10 * contractions[i] <= 12 * contractions[i - 1]}

\* C32, as claimed: the validation passes if and only if there are at
\* least min_contractions contractions and at least 70% of the consecutive
\* pullback pairs satisfy pullback[i] <= 1.2 x pullback[i-1], for every
\* number of contractions.
C32_SeventyPercentOfPairs ==
    result # None =>
        (result.value <=>
            /\ Len(args) >= min_contractions
            /\ 10 * Cardinality(ToleratedPairs(args)) >= 7 * (Len(args) - 1))

----------------------------------------------------------------------------
(* _calculate_confidence_score as a function of its inputs (SpecScore):    *)
(* every contraction list of up to optimal_contractions pullbacks, every   *)
(* tag of the volume analysis, both answers of the highs check and every   *)
(* answer of the breakout search.  Scores are per cent.                    *)

ScoreInputs ==
    {[contractions |-> contractions, volume_trend |-> volume_trend,
      near_highs |-> near_highs, breakout_info |-> breakout_info] :
        contractions \in ContractionLists,
        volume_trend \in VolumeTrends \cup {"no_contractions"},
        near_highs \in BOOLEAN, breakout_info \in BreakoutInfos}

InitScore ==
    /\ args \in ScoreInputs
    /\ now = 0
    /\ result = None
    /\ NoLedger
    /\ NoBacktest
    /\ live = None

\* detector._calculate_confidence_score(contractions, volume_trend,
\* near_highs, breakout_info, data).
CalculateConfidenceScore ==
    /\ result = None
    /\ result' = Returned(calculate_confidence_score(
                              args.contractions, args.volume_trend,
                              args.near_highs, args.breakout_info))
    /\ UNCHANGED <<args, now, ledger_vars, backtest_vars, live>>

NextScore == CalculateConfidenceScore

SpecScore == InitScore /\ [][NextScore]_vars

\* The parts of the score the claim lists, as (condition, points) pairs.
ScoreParts ==
    LET count == Len(args.contractions)
        found == args.breakout_info # None
    IN  <<<<count >= min_contractions, 30>>,
          <<count >= 3, 10>>,
          <<args.volume_trend = "decreasing", 25>>,
          <<args.volume_trend = "stable", 10>>,
          <<args.near_highs, 15>>,
          <<found, 15>>,
          <<found /\ args.breakout_info.volume_confirmed, 10>>,
          <<count >= 2 /\ \A i \in 2..count :
                10 * args.contractions[i] <= 11 * args.contractions[i - 1],
            10>>>>

\* C34: the confidence score equals min(1.0, the sum of 0.30 for at least
\* min_contractions contractions, 0.10 for at least 3, 0.25 for a
\* decreasing or 0.10 for a stable volume trend, 0.15 for a price near the
\* highs, 0.15 for a breakout and 0.10 more when it is volume-confirmed,
\* 0.10 when every pullback is within 1.1 times the previous one), for
\* every combination of the inputs.
C34_ConfidenceScore ==
    result # None =>
        result.value
            = Min(100, SumSeq([k \in 1..Len(ScoreParts) |->
                                 IF ScoreParts[k][1] THEN ScoreParts[k][2]
                                 ELSE 0]))

\* A breakout without volume confirmation has been scored 0.15: two
\* contractions outside the 1.1 tolerance, increasing volume, price away
\* from the highs.
C34_Witness ==
    /\ result # None
    /\ result.value = 45
    /\ args.breakout_info # None
    /\ ~args.breakout_info.volume_confirmed
    /\ Len(args.contractions) = 2
    /\ args.volume_trend = "increasing"

----------------------------------------------------------------------------
(* The results of a run that trades (SpecResults): the daily loop of       *)
(* SpecBacktest followed by the return figures of _calculate_results.      *)

\* total_return of _calculate_results (backtester.py:305-307).
total_return(pf, daily_values) ==
    LET initial_value == pf.initial_capital
        final_value ==
            IF daily_values # <<>>
              THEN daily_values[Len(daily_values)].portfolio_value
              ELSE initial_value
    IN  Ratio(final_value - initial_value, initial_value)

\* _calculate_results once the loop over the business days has ended.
CalculateResults ==
    /\ bt.day > MaxDay
    /\ result = None
    /\ result' = Returned(total_return(bt.portfolio, bt.daily_values))
    /\ UNCHANGED <<args, now, ledger_vars, backtest_vars, live>>

NextResults ==
    \/ ProcessExitsStep
    \/ ProcessEntriesStep
    \/ RecordStep
    \/ CalculateResults

SpecResults == InitBacktest /\ [][NextResults]_vars

\* C35, as claimed: total_return equals (last daily value - first daily
\* value) / first daily value of the recorded daily series, also when a
\* position is opened on the first simulated day.
C35_ReturnFromFirstDailyValue ==
    result # None =>
        LET first == bt.daily_values[1].portfolio_value
            final == bt.daily_values[Len(bt.daily_values)].portfolio_value
        IN  result.value = Ratio(final - first, first)

----------------------------------------------------------------------------
(* Claims about the risk metrics of the ledger (Spec).                     *)

\* C36, as claimed: the stats report the drawdown of the ledger's value
\* history.  A step that takes the total value from P down to V leaves a
\* running peak of at least P, so afterwards max_drawdown is at least
\* (P - V) / P.
C36_DrawdownFromHistory ==
    [][LET P == get_portfolio_value(portfolio)
           V == get_portfolio_value(portfolio')
       IN  V < P =>
             Leq(Ratio(P - V, P), get_portfolio_stats(portfolio').max_drawdown)]_vars

----------------------------------------------------------------------------
(* load_portfolio_state on any file (SpecLoad).  A file is the record      *)
(* that was saved and its defect: none, unreadable (open or json.load      *)
(* raises), a top-level key missing, or a field missing from the k-th      *)
(* position or the k-th closed trade.  The statements of the try block     *)
(* run in order up to the one that raises; the except clause logs.         *)

StateKeys == <<"cash", "initial_capital", "positions", "closed_trades">>

\* The ledgers of the model: a new one, and what two opens and two closes
\* make of it in turn.
SampleLedger(opens, closes) ==
    LET l0 == PortfolioManager(200000)
        l1 == open_position(l0, EntrySignal("AAA", SignalPrice("AAA"), 0,
                                            Confidence, 0), 2).pf
        l2 == open_position(l1, EntrySignal("CCC", SignalPrice("CCC"), 0,
                                            Confidence, 0), 1).pf
        l3 == close_position(l2, "AAA",
                             ExitSignal("AAA", 9000, 1, 100,
                                        "Stop loss triggered")).pf
        l4 == close_position(l3, "CCC",
                             ExitSignal("CCC", 9000, 1, 100,
                                        "Stop loss triggered")).pf
    IN  IF opens = 0 THEN l0
        ELSE IF opens = 1 THEN l1
        ELSE IF closes = 0 THEN l2
        ELSE IF closes = 1 THEN l3
        ELSE l4

SavedLedgers ==
    {SampleLedger(0, 0), SampleLedger(2, 0), SampleLedger(2, 1),
     SampleLedger(2, 2)}

LoadingLedgers ==
    {PortfolioManager(50000), SampleLedger(1, 0), SampleLedger(2, 1)}

Defects(state) ==
    {None, [kind |-> "unreadable"]}
    \cup {[kind |-> "key", key |-> StateKeys[k]] : k \in 1..Len(StateKeys)}
    \cup {[kind |-> "position", index |-> k] : k \in 1..Len(state.positions)}
    \cup {[kind |-> "trade", index |-> k] : k \in 1..Len(state.closed_trades)}

StateFiles ==
    UNION {{[state |-> save_portfolio_state(pf, 1), defect |-> defect] :
                defect \in Defects(save_portfolio_state(pf, 1))} :
            pf \in SavedLedgers}

\* load_portfolio_state(filepath) on any file: the ledger it leaves.
load_portfolio_state_file(pf, file) ==
    LET state == file.state
        defect == file.defect
        missing(key) == defect.kind = "key" /\ defect.key = key
        with_cash == [pf EXCEPT !.cash = state.cash]
        with_capital ==
            [with_cash EXCEPT !.initial_capital = state.initial_capital]
        restored(k) ==
            [with_capital EXCEPT
                !.positions =
                    RestorePositions(<<>>, SubSeq(state.positions, 1, k))]
        with_positions == restored(Len(state.positions))
        appended(k) ==
            [with_positions EXCEPT
                !.closed_trades =
                    RestoreTrades(SubSeq(state.closed_trades, 1, k))]
    IN  IF defect = None THEN load_portfolio_state(pf, state)
        ELSE IF defect.kind = "unreadable" THEN pf
        ELSE IF missing("cash") THEN pf
        ELSE IF missing("initial_capital") THEN with_cash
        ELSE IF missing("positions") THEN restored(0)
        ELSE IF defect.kind = "position" THEN restored(defect.index - 1)
        ELSE IF missing("closed_trades") THEN appended(0)
        ELSE appended(defect.index - 1)

InitLoad ==
    /\ portfolio \in LoadingLedgers
    /\ args \in StateFiles
    /\ now = 1
    /\ last = Op("init", TRUE, "")
    /\ h_open = NoOpen
    /\ result = None
    /\ NoBacktest
    /\ live = None

\* portfolio.load_portfolio_state(filepath).
LoadPortfolioState ==
    /\ last.op = "init"
    /\ portfolio' = load_portfolio_state_file(portfolio, args)
    /\ last' = Op("load", args.defect = None, "")
    /\ UNCHANGED <<args, result, now, h_open, backtest_vars, live>>

NextLoad == LoadPortfolioState

SpecLoad == InitLoad /\ [][NextLoad]_vars

\* C37, as claimed: load_portfolio_state is all-or-nothing: when the file
\* is unreadable or malformed, the cash, the initial capital, the positions
\* and the closed trades of the ledger are as they were before the call.
C37_LoadAllOrNothing ==
    [][(last'.op = "load" /\ args.defect # None) =>
          /\ portfolio'.cash = portfolio.cash
          /\ portfolio'.initial_capital = portfolio.initial_capital
          /\ portfolio'.positions = portfolio.positions
          /\ portfolio'.closed_trades = portfolio.closed_trades]_vars

----------------------------------------------------------------------------
(* PaperTrader.__init__ (SpecConstruct).  The object under construction is *)
(* the set of the attributes assigned so far, its ledger and its           *)
(* watchlist; a read of an attribute that has not been assigned raises     *)
(* AttributeError.  The files are the portfolio file (absent, or any file  *)
(* of SpecLoad) and the watchlist file (absent or present).                *)

FileSystems ==
    {[portfolio_file |-> portfolio_file, watchlist_file |-> watchlist_file] :
        portfolio_file \in {None} \cup StateFiles,
        watchlist_file \in {None, LiveSymbols}}

NewTrader(attrs, pf, watchlist) ==
    [attrs |-> attrs, portfolio |-> pf, watchlist |-> watchlist]

\* self.logger.info(...) or self.logger.error(...): the attribute is read.
LoggerMissing(self) == "logger" \notin self.attrs

\* setup_logging: self.logger = logging.getLogger('PaperTrader').
setup_logging(self) == [self EXCEPT !.attrs = @ \cup {"logger"}]

\* The watchlist part of load_state (paper_trader.py:79-87).
load_watchlist(self, fs) ==
    LET emptied == [self EXCEPT !.attrs = @ \cup {"watchlist"},
                                !.watchlist = <<>>]
        read == [emptied EXCEPT !.watchlist = fs.watchlist_file]
    IN  IF fs.watchlist_file = None THEN emptied
        ELSE IF LoggerMissing(read) THEN Raised("AttributeError")
        ELSE read

\* load_state: the info call after the load raises when there is no
\* logger, and so does the error call of the except clause that catches it.
load_state(self, fs) ==
    IF fs.portfolio_file = None THEN load_watchlist(self, fs)
    ELSE LET loaded ==
                 [self EXCEPT !.portfolio =
                     load_portfolio_state_file(@, fs.portfolio_file)]
         IN  IF LoggerMissing(loaded) THEN Raised("AttributeError")
             ELSE load_watchlist(loaded, fs)

\* PaperTrader(initial_capital, config): the object, or the exception that
\* leaves the constructor.
PaperTrader_init(initial_capital, fs) ==
    LET self == NewTrader({"config", "strategy", "portfolio", "vcp_detector",
                           "data_fetcher", "telegram_bot", "analyzer",
                           "portfolio_file", "watchlist_file", "alerts_file"},
                          PortfolioManager(initial_capital), <<>>)
        stated == load_state(self, fs)
    IN  IF IsRaised(stated) THEN stated ELSE setup_logging(stated)

InitConstruct ==
    /\ args \in {[initial_capital |-> c, fs |-> fs] :
                    c \in InitialCapitals \cup {50000}, fs \in FileSystems}
    /\ now = 1
    /\ result = None
    /\ NoLedger
    /\ NoBacktest
    /\ live = None

\* trader = PaperTrader(initial_capital=..., config=config).
Construct ==
    /\ result = None
    /\ result' = Returned(PaperTrader_init(args.initial_capital, args.fs))
    /\ UNCHANGED <<args, now, ledger_vars, backtest_vars, live>>

NextConstruct == Construct

SpecConstruct == InitConstruct /\ [][NextConstruct]_vars

\* C38, as claimed: when a saved portfolio snapshot exists, the
\* construction of the driver completes without error and the driver has
\* the cash, the open positions and the closed trades of the snapshot.
C38_ConstructWithSnapshot ==
    (/\ result # None
     /\ args.fs.portfolio_file # None
     /\ args.fs.portfolio_file.defect = None) =>
        LET trader == result.value
            snapshot ==
                load_portfolio_state(PortfolioManager(args.initial_capital),
                                     args.fs.portfolio_file.state)
        IN  /\ ~IsRaised(trader)
            /\ trader.portfolio.cash = snapshot.cash
            /\ trader.portfolio.positions = snapshot.positions
            /\ trader.portfolio.closed_trades = snapshot.closed_trades

====
